---------------------------- MODULE Spec2Model ----------------------------
(***************************************************************************)
(* A model of src/bot.py: the profile store (sqlite table "profiles"),     *)
(* the Filter Engine (perform_search_and_reply) and the conversation       *)
(* handlers of the party-search bot.                                       *)
(*                                                                         *)
(* Six specifications share the variables:                                 *)
(*   Spec        the conversation of one acting user against the store;    *)
(*   SpecSearch  perform_search_and_reply applied to drawn store contents  *)
(*               and drawn criteria;                                       *)
(*   SpecUpsert  sequences of upsert_profile calls on one user_id;         *)
(*   SpecFault   the conversation with failing store calls and failing     *)
(*               deliveries;                                               *)
(*   SpecRace    two toggle handlers of one user suspended and resumed at  *)
(*               their awaits;                                             *)
(*   SpecBack    the conversation followed by a run of Back events only,   *)
(*               with the fairness that every Back sent is handled.        *)
(***************************************************************************)
EXTENDS Integers, Sequences, FiniteSets

VARIABLES
    store,        \* the table profiles: user_id -> row, DOMAIN = rows present
    conv,         \* per user: the ConversationHandler state ("END" or a state)
    user_data,    \* per user: context.user_data, a dict (DOMAIN = keys present)
    screen,       \* per user: the screen last delivered (text and keyboard)
    last,         \* the update handled by the last step
    searchCall,   \* the perform_search_and_reply call made by the last step
    upsertLog,    \* SpecUpsert only: what the upserts applied so far provided
    steps,        \* Spec only: the number of updates handled so far
    fault,        \* "off", or under SpecFault what failed in the last step
    race,         \* SpecRace only: the two handlers in flight
    backRun       \* SpecBack only: the Back events sent since the run began

vars == <<store, conv, user_data, screen, last, searchCall, upsertLog, steps, fault, race, backRun>>

-----------------------------------------------------------------------------
(* Python's None / SQL NULL, and optional values.                          *)

None == <<>>

Some(v) == <<v>>

\* Python truthiness of an Optional[str]: None and "" are falsy.
TruthyStr(o) == o # None /\ o[1] # ""

\* Python truthiness of an Optional[bool].
TruthyBool(o) == o # None /\ o[1]

Max(a, b) == IF a >= b THEN a ELSE b

Min(a, b) == IF a <= b THEN a ELSE b

-----------------------------------------------------------------------------
(* Program constants.                                                      *)

POSITIONS ==
    [k \in {"1", "2", "3", "4", "5"} |->
        CASE k = "1" -> "Carry"
          [] k = "2" -> "Mid"
          [] k = "3" -> "Offlane"
          [] k = "4" -> "Soft Support"
          [] k = "5" -> "Hard Support"]

GAME_MODES == <<"Turbo", "All Pick", "Single Draft", "Ranked">>

\* A plausible bug: a digit too many in the upper bound.
MmrMaxTenfold == 15000 * 10

\* A plausible bug: the upper end of the range off by one.
MmrMaxOffByOne == 15000 + 1

MMR_MAX == 15000

SEARCH_LIMIT == 30

\* ASCII lower-casing (SQL LOWER(), str.lower()) on the strings of the model.
Lower(s) ==
    CASE s \in {"Ranked", "RANKED"} -> "ranked"
      [] s \in {"Turbo", "TURBO"} -> "turbo"
      [] s = "All Pick" -> "all pick"
      [] s = "Single Draft" -> "single draft"
      [] s \in {"Cancel", "CANCEL"} -> "cancel"
      [] OTHER -> s

-----------------------------------------------------------------------------
(* SQL three-valued logic: a truth value is Some(TRUE), Some(FALSE) or     *)
(* None (unknown); a WHERE clause keeps the rows where it is Some(TRUE).   *)

SqlEq(a, b) == IF a = None \/ b = None THEN None ELSE Some(a[1] = b[1])

SqlNe(a, b) == IF a = None \/ b = None THEN None ELSE Some(a[1] # b[1])

SqlIsNull(a) == Some(a = None)

SqlAnd(p, q) ==
    IF p = Some(FALSE) \/ q = Some(FALSE) THEN Some(FALSE)
    ELSE IF p = None \/ q = None THEN None
    ELSE Some(TRUE)

SqlOr(p, q) ==
    IF p = Some(TRUE) \/ q = Some(TRUE) THEN Some(TRUE)
    ELSE IF p = None \/ q = None THEN None
    ELSE Some(FALSE)

SqlBetween(a, lo, hi) ==
    IF a = None \/ lo = None \/ hi = None THEN None
    ELSE Some(lo[1] <= a[1] /\ a[1] <= hi[1])

SqlLower(a) == IF a = None THEN None ELSE Some(Lower(a[1]))

-----------------------------------------------------------------------------
(* The profile store.                                                      *)

\* get_profile: the row as a dict, online/full_party as booleans; None if absent.
get_profile(user_id) ==
    IF user_id \in DOMAIN store
    THEN Some([position   |-> store[user_id].position,
               mode       |-> store[user_id].mode,
               mmr        |-> store[user_id].mmr,
               username   |-> store[user_id].username,
               online     |-> store[user_id].online # 0,
               full_party |-> store[user_id].full_party # 0])
    ELSE None

\* A plausible bug: the flags are written by every UPDATE, 0 when not given.
UpdateRowFlagsReset(row, position, mode, mmr, username, online, full_party) ==
    [position   |-> IF position # None THEN position ELSE row.position,
     mode       |-> IF mode # None THEN mode ELSE row.mode,
     mmr        |-> IF mmr # None THEN mmr ELSE row.mmr,
     username   |-> IF username # None THEN username ELSE row.username,
     online     |-> IF online # None /\ online[1] # 0 THEN 1 ELSE 0,
     full_party |-> IF full_party # None /\ full_party[1] # 0 THEN 1 ELSE 0]

\* The UPDATE branch: only the columns given (is not None) are set.
UpdateRow(row, position, mode, mmr, username, online, full_party) ==
    [position   |-> IF position # None THEN position ELSE row.position,
     mode       |-> IF mode # None THEN mode ELSE row.mode,
     mmr        |-> IF mmr # None THEN mmr ELSE row.mmr,
     username   |-> IF username # None THEN username ELSE row.username,
     online     |-> IF online # None
                    THEN (IF online[1] # 0 THEN 1 ELSE 0) ELSE row.online,
     full_party |-> IF full_party # None
                    THEN (IF full_party[1] # 0 THEN 1 ELSE 0) ELSE row.full_party]

\* The INSERT branch: every column as given, the flags default to 0.
InsertRow(position, mode, mmr, username, online, full_party) ==
    [position   |-> position,
     mode       |-> mode,
     mmr        |-> mmr,
     username   |-> username,
     online     |-> IF online # None /\ online[1] # 0 THEN 1 ELSE 0,
     full_party |-> IF full_party # None /\ full_party[1] # 0 THEN 1 ELSE 0]

\* A plausible bug: the row is replaced (INSERT OR REPLACE), not merged.
upsert_profile_replace(user_id, position, mode, mmr, username, online, full_party) ==
    [u \in DOMAIN store \cup {user_id} |->
        IF u = user_id
        THEN InsertRow(position, mode, mmr, username, online, full_party)
        ELSE store[u]]

\* upsert_profile: the table after the call.
upsert_profile(user_id, position, mode, mmr, username, online, full_party) ==
    LET exists == user_id \in DOMAIN store
    IN  [u \in DOMAIN store \cup {user_id} |->
            IF u # user_id THEN store[u]
            ELSE IF exists
                 THEN UpdateRow(store[u], position, mode, mmr, username,
                                online, full_party)
                 ELSE InsertRow(position, mode, mmr, username, online,
                                full_party)]

-----------------------------------------------------------------------------
(* The Filter Engine: perform_search_and_reply's query.                    *)

\* Ascending order of a finite set of integers.
RECURSIVE Ascending(_)
Ascending(S) ==
    IF S = {} THEN <<>>
    ELSE LET m == CHOOSE x \in S : \A y \in S : x <= y
         IN  <<m>> \o Ascending(S \ {m})

\* FROM profiles, with no ORDER BY: a scan in rowid (= user_id) order.
TableScan == Ascending(DOMAIN store)

\* A plausible bug: the online condition is left out.
WhereBaseNoOnline(uid, row, requester_id) ==
    SqlNe(Some(uid), Some(requester_id))

\* WHERE user_id != ? AND online = 1
WhereBase(uid, row, requester_id) ==
    SqlAnd(SqlNe(Some(uid), Some(requester_id)),
           SqlEq(Some(row.online), Some(1)))

\* A plausible bug: NULL positions dropped by the exclusion (no IS NULL).
WherePositionNoNull(row, specific_position, exclude_position, requester_pos) ==
    IF TruthyStr(specific_position)
    THEN SqlEq(row.position, specific_position)
    ELSE IF exclude_position = Some(TRUE) /\ TruthyStr(requester_pos)
         THEN SqlNe(row.position, requester_pos)
         ELSE Some(TRUE)

\* Position filtering.
WherePosition(row, specific_position, exclude_position, requester_pos) ==
    IF TruthyStr(specific_position)
    THEN SqlEq(row.position, specific_position)
    ELSE IF exclude_position = Some(TRUE) /\ TruthyStr(requester_pos)
         THEN SqlOr(SqlIsNull(row.position),
                    SqlNe(row.position, requester_pos))
         ELSE Some(TRUE)

\* A plausible bug: the modes compared as stored, without LOWER().
WhereModeCaseSensitive(row, search_mode) ==
    IF TruthyStr(search_mode)
    THEN SqlEq(row.mode, search_mode)
    ELSE Some(TRUE)

\* Mode logic: strict if search_mode provided.
WhereMode(row, search_mode) ==
    IF TruthyStr(search_mode)
    THEN SqlEq(SqlLower(row.mode), SqlLower(search_mode))
    ELSE Some(TRUE)

\* A plausible bug: "is not None" instead of truthiness, so False filters too.
WhereFullIfSet(row, only_full_party) ==
    IF only_full_party # None
    THEN SqlEq(Some(row.full_party), Some(1))
    ELSE Some(TRUE)

\* Full party filter.
WhereFull(row, only_full_party) ==
    IF TruthyBool(only_full_party)
    THEN SqlEq(Some(row.full_party), Some(1))
    ELSE Some(TRUE)

\* A plausible bug: the upper bound exclusive.
WhereMmrExclusive(row, mmr_filter, requester_mmr) ==
    IF mmr_filter # None
    THEN LET min_m == Max(0, requester_mmr[1] - mmr_filter[1])
             max_m == requester_mmr[1] + mmr_filter[1]
         IN  SqlBetween(row.mmr, Some(min_m), Some(max_m - 1))
    ELSE Some(TRUE)

\* MMR filtering (reached only with requester_mmr known).
WhereMmr(row, mmr_filter, requester_mmr) ==
    IF mmr_filter # None
    THEN LET min_m == Max(0, requester_mmr[1] - mmr_filter[1])
             max_m == requester_mmr[1] + mmr_filter[1]
         IN  SqlBetween(row.mmr, Some(min_m), Some(max_m))
    ELSE Some(TRUE)

\* A plausible bug: an off-by-one limit.
LimitOneLess(rows) == SubSeq(rows, 1, Min(Len(rows), SEARCH_LIMIT - 1))

\* LIMIT 30
Limit(rows) == SubSeq(rows, 1, Min(Len(rows), SEARCH_LIMIT))

\* The outcome of perform_search_and_reply and the user_ids of the rows fetched.
perform_search(requester_id, search_mode, mmr_filter, exclude_position, specific_position, only_full_party) ==
    LET requester_profile == get_profile(requester_id)
        requester_pos == IF requester_profile # None
                         THEN requester_profile[1].position ELSE None
        requester_mmr == IF requester_profile # None
                         THEN requester_profile[1].mmr ELSE None
        Selected(uid) ==
            SqlAnd(SqlAnd(SqlAnd(SqlAnd(
                WhereBase(uid, store[uid], requester_id),
                WherePosition(store[uid], specific_position, exclude_position,
                              requester_pos)),
                WhereMode(store[uid], search_mode)),
                WhereFull(store[uid], only_full_party)),
                WhereMmr(store[uid], mmr_filter, requester_mmr)) = Some(TRUE)
    IN  IF mmr_filter # None /\ requester_mmr = None
        THEN [outcome |-> "mmr_missing", rows |-> <<>>]
        ELSE LET rows == Limit(SelectSeq(TableScan, Selected))
             IN  [outcome |-> IF rows = <<>> THEN "no_results" ELSE "results",
                  rows    |-> rows]

\* The record of one call: its arguments and what it produced.
SearchRecord(requester_id, search_mode, mmr_filter, exclude_position, specific_position, only_full_party) ==
    LET r == perform_search(requester_id, search_mode, mmr_filter,
                            exclude_position, specific_position, only_full_party)
    IN  [requester_id      |-> requester_id,
         search_mode       |-> search_mode,
         mmr_filter        |-> mmr_filter,
         exclude_position  |-> exclude_position,
         specific_position |-> specific_position,
         only_full_party   |-> only_full_party,
         outcome           |-> r.outcome,
         rows              |-> r.rows]

-----------------------------------------------------------------------------
(* The session of a user before any update was handled.                    *)

Actors == {1}

EmptyDict == [k \in {} |-> None]

NoScreen == [text |-> <<"none">>, kb |-> <<"none">>]

NoUpdate == [user |-> 0, kind |-> "none", data |-> "", arg |-> None, raised |-> FALSE]

NoUpsertLog == [prior |-> None, n |-> 0, provided |-> None, merged |-> FALSE]

\* No handler in flight.
NoRace == [base |-> None, task |-> <<>>]

\* No run of Back events is followed.
NoBackRun == [on |-> FALSE, sent |-> 0]

SessionInit ==
    /\ conv = [u \in Actors |-> "END"]
    /\ user_data = [u \in Actors |-> EmptyDict]
    /\ screen = [u \in Actors |-> NoScreen]
    /\ last = NoUpdate
    /\ steps = 0
    /\ race = NoRace

-----------------------------------------------------------------------------
(* SpecSearch: perform_search_and_reply on drawn store contents.           *)

\* The largest table drawn for the LIMIT cases.
MaxRows == 35

SearchModes == {None, Some("Ranked"), Some("TURBO")}

SearchDeltas == {None, Some(0), Some(250)}

SearchFlags == {None, Some(TRUE), Some(FALSE)}

SearchSpecifics == {None, Some("Mid")}

CandidateRows ==
    [position   : {None, Some("Carry"), Some("Mid")},
     mode       : {None, Some("Ranked"), Some("ranked")},
     mmr        : {None, Some(0), Some(3749), Some(3750), Some(4000),
                   Some(4250), Some(4251)},
     username   : {None},
     online     : {0, 1},
     full_party : {0, 1}]

RequesterRow(position, mmr) ==
    [position |-> position, mode |-> Some("Ranked"), mmr |-> mmr,
     username |-> Some("neo"), online |-> 1, full_party |-> 0]

RequesterRows ==
    {RequesterRow(Some("Mid"), Some(4000)), RequesterRow(Some("Mid"), None),
     RequesterRow(Some("Mid"), Some(100)), RequesterRow(None, Some(4000))}

\* The requester (user 1, present or not) and one candidate (user 2).
SmallStores ==
    {[u \in {1, 2} |-> IF u = 1 THEN r ELSE c] :
        r \in RequesterRows, c \in CandidateRows}
    \cup {[u \in {2} |-> c] : c \in CandidateRows}

\* The example of the specification: requester Mid 4000 and three candidates.
ExampleStore ==
    [u \in 1..4 |->
        CASE u = 1 -> [position |-> Some("Mid"), mode |-> Some("Ranked"),
                       mmr |-> Some(4000), username |-> Some("neo"),
                       online |-> 1, full_party |-> 0]
          [] u = 2 -> [position |-> Some("Mid"), mode |-> Some("ranked"),
                       mmr |-> Some(4100), username |-> Some("two"),
                       online |-> 1, full_party |-> 0]
          [] u = 3 -> [position |-> Some("Carry"), mode |-> Some("Ranked"),
                       mmr |-> Some(4200), username |-> None,
                       online |-> 1, full_party |-> 1]
          [] u = 4 -> [position |-> Some("Carry"), mode |-> Some("Ranked"),
                       mmr |-> Some(4300), username |-> Some("four"),
                       online |-> 1, full_party |-> 0]]

\* A table of n rows: every eleventh user offline, roles and flags alternate.
PatternRow(u) ==
    [position   |-> IF u % 2 = 0 THEN Some("Carry") ELSE Some("Mid"),
     mode       |-> Some("Ranked"),
     mmr        |-> Some(4000),
     username   |-> None,
     online     |-> IF u % 11 = 0 THEN 0 ELSE 1,
     full_party |-> IF u % 3 = 0 THEN 0 ELSE 1]

LargeStores == {[u \in 1..n |-> PatternRow(u)] : n \in (SEARCH_LIMIT - 1)..MaxRows}

InitSearch ==
    /\ store \in SmallStores \cup {ExampleStore} \cup LargeStores
    /\ searchCall = None
    /\ upsertLog = NoUpsertLog
    /\ fault = "off"
    /\ backRun = NoBackRun
    /\ SessionInit

\* One call of perform_search_and_reply with drawn criteria.
PerformSearch(requester_id, search_mode, mmr_filter, exclude_position, specific_position, only_full_party) ==
    /\ searchCall = None
    /\ searchCall' = Some(SearchRecord(requester_id, search_mode, mmr_filter, exclude_position, specific_position, only_full_party))
    /\ UNCHANGED <<store, conv, user_data, screen, last, upsertLog, steps, fault, race, backRun>>

NextSearch ==
    \E requester_id \in {1, 5}, search_mode \in SearchModes,
       mmr_filter \in SearchDeltas, exclude_position \in SearchFlags,
       specific_position \in SearchSpecifics, only_full_party \in SearchFlags :
        /\ requester_id = 5 => Cardinality(DOMAIN store) > 4
        /\ PerformSearch(requester_id, search_mode, mmr_filter, exclude_position, specific_position, only_full_party)

SpecSearch == InitSearch /\ [][NextSearch]_vars

-----------------------------------------------------------------------------
(* Claims about the Filter Engine, checked under SpecSearch.               *)

\* The call the state records, and the candidates' stored attributes.
Call == searchCall[1]

Searched == searchCall # None

Returned == {Call.rows[i] : i \in 1..Len(Call.rows)}

\* The table is small enough for LIMIT to cut nothing.
Uncapped == Cardinality(DOMAIN store) <= SEARCH_LIMIT

RequesterRole == IF Call.requester_id \in DOMAIN store THEN store[Call.requester_id].position ELSE None

RequesterRating == IF Call.requester_id \in DOMAIN store THEN store[Call.requester_id].mmr ELSE None

\* The rows the same call returns with one criterion taken out.
WithoutPosition == perform_search(Call.requester_id, Call.search_mode, Call.mmr_filter, None, None, Call.only_full_party).rows

WithoutMode == perform_search(Call.requester_id, None, Call.mmr_filter, Call.exclude_position, Call.specific_position, Call.only_full_party).rows

WithoutFull == perform_search(Call.requester_id, Call.search_mode, Call.mmr_filter, Call.exclude_position, Call.specific_position, None).rows

WithoutRating == perform_search(Call.requester_id, Call.search_mode, None, Call.exclude_position, Call.specific_position, Call.only_full_party).rows

\* C1: a search result holds only profiles with visible = true and never the
\* requester's own profile, whatever the store and the criteria.
C1_OnlyVisibleNeverSelf ==
    Searched =>
        \A u \in Returned :
            /\ u \in DOMAIN store
            /\ store[u].online = 1
            /\ u # Call.requester_id

\* C1 witness: a search with criteria set returned a profile while the
\* requester's own row is visible and another row of the table is not.
C1_Witness ==
    /\ Searched
    /\ Call.rows # <<>>
    /\ Call.search_mode # None /\ Call.mmr_filter # None
    /\ Call.requester_id \in DOMAIN store
    /\ store[Call.requester_id].online = 1
    /\ \E u \in DOMAIN store : store[u].online = 0

\* C4: what the position restriction keeps, by the candidate's role.
RoleKept(u) ==
    IF Call.specific_position # None
    THEN store[u].position = Call.specific_position
    ELSE IF Call.exclude_position = Some(TRUE) /\ RequesterRole # None
         THEN store[u].position # RequesterRole
         ELSE TRUE

\* C4: with Specific(role) exactly the candidates of that role are kept; with
\* ExcludeOwn and a known requester role exactly the candidates of the
\* requester's role are removed (no role: kept); otherwise none is removed.
C4_PositionRestriction ==
    (Searched /\ Uncapped) => Call.rows = SelectSeq(WithoutPosition, RoleKept)

\* C4 witness: under ExcludeOwn a candidate without a role was returned, in
\* a table where the restriction removed another candidate.
C4_Witness ==
    /\ Searched
    /\ Call.specific_position = None
    /\ Call.exclude_position = Some(TRUE)
    /\ RequesterRole = Some("Mid")
    /\ Len(WithoutPosition) > Len(Call.rows)
    /\ Call.rows # <<>>

\* C4 witness, second case: a candidate without a role kept under ExcludeOwn.
C4_WitnessNoRole ==
    /\ Searched
    /\ Call.specific_position = None
    /\ Call.exclude_position = Some(TRUE)
    /\ RequesterRole = Some("Mid")
    /\ \E u \in Returned : store[u].position = None

\* C5: what the mode restriction keeps, by the candidate's mode.
ModeKept(u) ==
    Call.search_mode # None =>
        /\ store[u].mode # None
        /\ Lower(store[u].mode[1]) = Lower(Call.search_mode[1])

\* C5: with a concrete mode exactly the candidates whose mode equals it
\* ignoring case are kept (no mode: removed); with no mode filter none is
\* removed on account of its mode.
C5_ModeRestriction ==
    (Searched /\ Uncapped) => Call.rows = SelectSeq(WithoutMode, ModeKept)

\* C5 witness: a candidate whose stored mode differs from the criterion only
\* in letter case was returned.
C5_Witness ==
    /\ Searched
    /\ Call.search_mode # None
    /\ \E u \in Returned : store[u].mode # Call.search_mode

\* C6: what the rating restriction keeps, by the candidate's rating.
RatingKept(u) ==
    Call.mmr_filter # None =>
        /\ store[u].mmr # None
        /\ Max(0, RequesterRating[1] - Call.mmr_filter[1]) <= store[u].mmr[1]
        /\ store[u].mmr[1] <= RequesterRating[1] + Call.mmr_filter[1]

\* C6: with requester rating R known and tolerance d >= 0, exactly the
\* candidates with max(0, R - d) <= rating <= R + d are kept, unknown ratings
\* are removed, and with d = 0 only rating R is returned.
C6_RatingRestriction ==
    (Searched /\ Uncapped /\ RequesterRating # None) =>
        /\ Call.rows = SelectSeq(WithoutRating, RatingKept)
        /\ Call.mmr_filter = Some(0) =>
              \A u \in Returned : store[u].mmr = RequesterRating

\* C6 witness: a candidate exactly on the upper bound R + d was returned.
C6_Witness ==
    /\ Searched
    /\ Call.mmr_filter = Some(250)
    /\ RequesterRating = Some(4000)
    /\ \E u \in Returned : store[u].mmr = Some(4250)

\* C6 witness, d = 0: a candidate with the requester's rating was returned.
C6_WitnessZero ==
    /\ Searched
    /\ Call.mmr_filter = Some(0)
    /\ RequesterRating = Some(4000)
    /\ Call.rows # <<>>

\* C8: what the full-party restriction keeps.
FullKept(u) == Call.only_full_party = Some(TRUE) => store[u].full_party = 1

\* C8: with full_party_only true exactly the candidates with
\* wants_full_party = true are kept; with false or unset none is removed.
C8_FullPartyRestriction ==
    (Searched /\ Uncapped) => Call.rows = SelectSeq(WithoutFull, FullKept)

\* C8 witness: full_party_only = false and a candidate with
\* wants_full_party = false was returned.
C8_Witness ==
    /\ Searched
    /\ Call.only_full_party = Some(FALSE)
    /\ \E u \in Returned : store[u].full_party = 0

\* C8 witness, second case: full_party_only = true removed a candidate.
C8_WitnessRemoved ==
    /\ Searched
    /\ Call.only_full_party = Some(TRUE)
    /\ Len(WithoutFull) > Len(Call.rows)
    /\ Call.rows # <<>>

\* C9: the profiles that match the criteria of the call.
Matching ==
    {u \in DOMAIN store :
        /\ u # Call.requester_id
        /\ store[u].online = 1
        /\ RoleKept(u) /\ ModeKept(u) /\ FullKept(u) /\ RatingKept(u)}

\* C9: a search returns the first matching profiles in store order, without
\* duplicates or reordering, never more than 30, and all of them when at most
\* 30 match.
C9_FirstThirtyInStoreOrder ==
    (Searched /\ Call.outcome # "mmr_missing") =>
        /\ Len(Call.rows) = Min(Cardinality(Matching), SEARCH_LIMIT)
        /\ \A i \in 1..Len(Call.rows) : Call.rows[i] \in Matching
        /\ \A i, j \in 1..Len(Call.rows) : i < j => Call.rows[i] < Call.rows[j]
        /\ \A u \in Matching : \A i \in 1..Len(Call.rows) :
              u < Call.rows[i] => u \in Returned

\* C9 witness: more than 30 profiles match and 30 were returned.
C9_Witness ==
    /\ Searched
    /\ Call.outcome = "results"
    /\ Cardinality(Matching) > SEARCH_LIMIT
    /\ Len(Call.rows) = SEARCH_LIMIT

-----------------------------------------------------------------------------
(* SpecUpsert: sequences of upsert_profile calls on user_id 1.  The log    *)
(* keeps the row before the first call, the number of calls, for each      *)
(* field the value of the most recent call that provided it, and whether   *)
(* the latest call omitted a field an earlier call had provided.           *)

\* The longest sequence of upserts.
MaxUpserts == 3

Fields == {"position", "mode", "mmr", "username", "online", "full_party"}

UpsertArgs ==
    [position   : {None, Some(Some("Mid")), Some(Some("Carry"))},
     mode       : {None, Some(Some("Turbo"))},
     mmr        : {None, Some(Some(0)), Some(Some(4000))},
     username   : {None, Some(Some("neo"))},
     online     : {None, Some(0), Some(1)},
     full_party : {None, Some(0), Some(1)}]

UpsertPriorRows ==
    {[position |-> Some("Offlane"), mode |-> Some("Ranked"), mmr |-> Some(15000),
      username |-> Some("old"), online |-> 1, full_party |-> 1],
     [position |-> None, mode |-> None, mmr |-> None,
      username |-> None, online |-> 0, full_party |-> 0]}

InitUpsert ==
    /\ store \in {[u \in {} |-> None]} \cup {[u \in {1} |-> r] : r \in UpsertPriorRows}
    /\ upsertLog = [prior    |-> IF 1 \in DOMAIN store THEN Some(store[1]) ELSE None,
                    n        |-> 0,
                    provided |-> [f \in Fields |-> None],
                    merged   |-> FALSE]
    /\ searchCall = None
    /\ fault = "off"
    /\ backRun = NoBackRun
    /\ SessionInit

\* An argument of the call as Python passes it: None, or the value.
Arg(a) == IF a = None THEN None ELSE a[1]

\* One call upsert_profile(1, ...): a[f] = None when field f is not provided.
UpsertCall(a) ==
    /\ upsertLog.n < MaxUpserts
    /\ store' = upsert_profile(1, Arg(a.position), Arg(a.mode), Arg(a.mmr), Arg(a.username), a.online, a.full_party)
    /\ upsertLog' =
          [prior    |-> upsertLog.prior,
           n        |-> upsertLog.n + 1,
           provided |-> [f \in Fields |->
                            IF a[f] # None THEN a[f] ELSE upsertLog.provided[f]],
           merged   |-> \E f \in Fields :
                            a[f] = None /\ upsertLog.provided[f] # None]
    /\ UNCHANGED <<conv, user_data, screen, last, searchCall, steps, fault, race, backRun>>

NextUpsert == \E a \in UpsertArgs : UpsertCall(a)

SpecUpsert == InitUpsert /\ [][NextUpsert]_vars

\* C2: the value field f must hold: the one of the most recent upsert that
\* provided it, else the prior one (absent, or 0 for the flags, on creation).
ExpectedField(f) ==
    IF upsertLog.provided[f] # None THEN upsertLog.provided[f][1]
    ELSE IF upsertLog.prior # None THEN upsertLog.prior[1][f]
    ELSE IF f \in {"online", "full_party"} THEN 0
    ELSE None

\* C2: after any sequence of upserts to one user_id the row exists and each
\* field equals the value of the most recent upsert that provided it; a field
\* no upsert provided keeps its prior value.
C2_UpsertMerges ==
    upsertLog.n >= 1 =>
        /\ 1 \in DOMAIN store
        /\ \A f \in Fields : store[1][f] = ExpectedField(f)

\* C2 witness: a row created by the first upsert, and a later upsert that
\* omitted a field an earlier one had provided.
C2_Witness ==
    /\ upsertLog.n >= 2
    /\ upsertLog.prior = None
    /\ upsertLog.merged
    /\ 1 \in DOMAIN store
    /\ store[1].mmr = Some(0)

-----------------------------------------------------------------------------
(* context.user_data: a dict.  Every value but the back stack is kept as   *)
(* an optional (Some(v), or None for a key set to None).                   *)

Get(d, k) == IF k \in DOMAIN d THEN d[k] ELSE None

Set(d, k, v) == [x \in DOMAIN d \cup {k} |-> IF x = k THEN v ELSE d[x]]

Pop(d, k) == [x \in DOMAIN d \ {k} |-> d[x]]

\* The longest back stack the model lets grow.
MaxStack == 6

BackStack(d) == IF "back_stack" \in DOMAIN d THEN d["back_stack"] ELSE <<>>

\* A plausible bug: only the last screen left is remembered.
push_back_single(d, prev) == Set(d, "back_stack", <<prev>>)

\* A plausible bug: the entry inserted at the bottom of the stack.
push_back_front(d, prev) == Set(d, "back_stack", <<prev>> \o BackStack(d))

push_back(d, prev) == Set(d, "back_stack", Append(BackStack(d), prev))

\* A plausible bug: the top entry read but left on the stack.
pop_back_peek(d) ==
    IF BackStack(d) = <<>> THEN [val |-> None, d |-> d]
    ELSE [val |-> Some(BackStack(d)[Len(BackStack(d))]), d |-> d]

\* A plausible bug: the bottom entry is read but never removed.
pop_back_floor(d) ==
    IF Len(BackStack(d)) <= 1 THEN [val |-> IF BackStack(d) = <<>> THEN None ELSE Some(BackStack(d)[1]), d |-> d]
    ELSE [val |-> Some(BackStack(d)[Len(BackStack(d))]), d |-> Set(d, "back_stack", SubSeq(BackStack(d), 1, Len(BackStack(d)) - 1))]

\* pop_back: the value popped (None on an empty stack) and the dict after it.
pop_back(d) ==
    LET stack == BackStack(d)
    IN  IF stack = <<>>
        THEN [val |-> None, d |-> d]
        ELSE [val |-> Some(stack[Len(stack)]),
              d   |-> Set(d, "back_stack", SubSeq(stack, 1, Len(stack) - 1))]

clear_back(d) == Pop(d, "back_stack")

store_last_text(d, step, text) == Set(d, "last_text_" \o step, Some(text))

get_last_text(d, step) == Get(d, "last_text_" \o step)

\* The search criteria and own_position, popped by the terminal handlers.
DraftKeys == {"search_mode", "exclude_position", "specific_position", "only_full_party", "own_position"}

\* A plausible bug: own_position forgotten among the keys popped.
PopDraftKeepOwn(d) == [x \in DOMAIN d \ (DraftKeys \ {"own_position"}) |-> d[x]]

PopDraft(d) == [x \in DOMAIN d \ DraftKeys |-> d[x]]

-----------------------------------------------------------------------------
(* Keyboards: a tuple naming the keyboard and what its labels depend on.   *)
(* Buttons(kb) is the set of callback data <<tag, argument>> it offers.    *)

get_main_keyboard == <<"main">>

\* A plausible bug: the two flags passed in the wrong order.
profile_edit_keyboard_swapped(is_online, full_party) == <<"profile", full_party, is_online>>

profile_edit_keyboard_dynamic(is_online, full_party) == <<"profile", is_online, full_party>>

mode_selection_keyboard(action_prefix) == <<"mode_selection", action_prefix>>

\* A plausible bug: the toggle label taken from the draft only when a text of
\* the screen is cached.
search_pos_option_keyboard_cached(d) ==
    LET exclude == IF Get(d, "last_text_SEARCH_POS_OPTION") = None \/ Get(d, "exclude_position") = None
                   THEN TRUE ELSE Get(d, "exclude_position")[1]
    IN  <<"search_pos_option", exclude>>

\* exclude_position unset is shown as ON.
search_pos_option_keyboard_dynamic(d) ==
    LET exclude == IF Get(d, "exclude_position") = None THEN TRUE ELSE Get(d, "exclude_position")[1]
    IN  <<"search_pos_option", exclude>>

select_position_keyboard == <<"select_position">>

search_full_option_keyboard == <<"search_full_option">>

search_mmr_keyboard == <<"search_mmr">>

back_menu_keyboard == <<"back_menu">>

back_menu_cancel_keyboard == <<"back_menu_cancel">>

\* The keyboard of the missing-rating screen put on the missing-role screen.
missing_position_keyboard_remedy_mmr == <<"missing_mmr">>

missing_position_keyboard == <<"missing_position">>

missing_mmr_keyboard == <<"missing_mmr">>

\* One contact button per row, then the menu row, the list cut to 30 buttons.
results_keyboard(rows) == <<"results", Min(Len(rows), SEARCH_LIMIT), Len(rows) + 1 <= SEARCH_LIMIT>>

back_and_menu_row == {<<"go_back", "">>, <<"main_menu", "">>}

Range(q) == {q[i] : i \in 1..Len(q)}

Buttons(kb) ==
    CASE kb[1] = "main" -> {<<"search_party", "">>, <<"my_profile", "">>}
      [] kb[1] = "profile" ->
            {<<"toggle_online", "">>, <<"toggle_fullparty", "">>, <<"edit_position", "">>,
             <<"edit_mode", "">>, <<"edit_mmr", "">>} \cup back_and_menu_row
      [] kb[1] = "mode_selection" ->
            {<<kb[2], m>> : m \in Range(GAME_MODES)} \cup {<<"mode_", "none">>} \cup back_and_menu_row
      [] kb[1] = "search_pos_option" ->
            {<<"toggle_exclude_position", "">>, <<"start_search", "">>, <<"spec_position", "">>}
            \cup back_and_menu_row
      [] kb[1] = "select_position" ->
            {<<"selectpos_", k>> : k \in DOMAIN POSITIONS} \cup back_and_menu_row
      [] kb[1] = "search_full_option" ->
            {<<"only_full_yes", "">>, <<"only_full_no", "">>} \cup back_and_menu_row
      [] kb[1] = "search_mmr" ->
            {<<"mmr_none", "">>, <<"delta_", "100">>, <<"delta_", "250">>, <<"delta_", "500">>,
             <<"delta_", "custom">>} \cup back_and_menu_row
      [] kb[1] \in {"back_menu", "back_menu_cancel"} -> back_and_menu_row
      [] kb[1] = "missing_position" -> {<<"edit_position", "">>, <<"main_menu", "">>}
      [] kb[1] = "missing_mmr" -> {<<"edit_mmr", "">>, <<"main_menu", "">>}
      [] kb[1] = "results" -> IF kb[3] THEN {<<"main_menu", "">>} ELSE {}
      [] OTHER -> {}

Screen(text, kb) == [text |-> text, kb |-> kb]

\* The text of the profile view built by my_profile.
ProfileText(profile) ==
    IF profile = None THEN <<"profile", None, None, None, None>>
    ELSE <<"profile", profile[1].position, profile[1].mode, profile[1].mmr, profile[1].username>>

\* The text render_prev builds when no PROFILE text is stored (no Full party
\* paragraph; None fields are printed as they are).
ProfileTextRegenerated(profile) ==
    IF profile = None THEN <<"profile_regenerated", None, None, None, None>>
    ELSE <<"profile_regenerated", profile[1].position, profile[1].mode, profile[1].mmr, profile[1].username>>

TextOr(lst, default) == IF lst # None /\ lst[1] # <<>> THEN lst[1] ELSE default

\* render_prev: the screen for the popped entry and the dict after it.
render_prev(prev, user_id, d) ==
    IF prev = None \/ prev = Some("") THEN
        [screen |-> Screen(<<"main_menu">>, get_main_keyboard), d |-> d]
    ELSE IF prev[1] = "MAIN_MENU" THEN
        [screen |-> Screen(<<"main_menu">>, get_main_keyboard), d |-> clear_back(d)]
    ELSE IF prev[1] = "PROFILE" THEN
        LET profile == get_profile(user_id)
            online == IF profile # None THEN profile[1].online ELSE FALSE
            full == IF profile # None THEN profile[1].full_party ELSE FALSE
        IN  [screen |-> Screen(TextOr(get_last_text(d, "PROFILE"), ProfileTextRegenerated(profile)),
                               profile_edit_keyboard_dynamic(online, full)),
             d |-> d]
    ELSE IF prev[1] = "SEARCH_MODE" THEN
        [screen |-> Screen(TextOr(get_last_text(d, "SEARCH_MODE"), <<"choose_search_mode">>),
                           mode_selection_keyboard("mode_")),
         d |-> d]
    ELSE IF prev[1] = "SEARCH_POS_OPTION" THEN
        [screen |-> Screen(TextOr(get_last_text(d, "SEARCH_POS_OPTION"), <<"ask_pos_option">>),
                           search_pos_option_keyboard_dynamic(d)),
         d |-> d]
    ELSE IF prev[1] = "SELECT_POSITION" THEN
        [screen |-> Screen(TextOr(get_last_text(d, "SELECT_POSITION"), <<"ask_select_position">>),
                           select_position_keyboard),
         d |-> d]
    ELSE IF prev[1] = "SEARCH_FULL_OPTION" THEN
        [screen |-> Screen(TextOr(get_last_text(d, "SEARCH_FULL_OPTION"), <<"ask_only_full">>),
                           search_full_option_keyboard),
         d |-> d]
    ELSE IF prev[1] = "SEARCH_MMR" THEN
        [screen |-> Screen(TextOr(get_last_text(d, "SEARCH_MMR"), <<"ask_mmr_options">>),
                           search_mmr_keyboard),
         d |-> d]
    ELSE
        [screen |-> Screen(<<"main_menu">>, get_main_keyboard), d |-> d]

-----------------------------------------------------------------------------
(* Spec: the conversation of the acting users.  A callback query carries   *)
(* the data of a button of the keyboard last delivered to the user; a text *)
(* message goes to the MessageHandler of the conversation state.  Every    *)
(* callback query is handled by button_handler, in every state (it is the  *)
(* entry point and allow_reentry is set).                                  *)

\* query.from_user.username
Username(u) == Some("neo")

\* The table when the process starts: the other users' rows (which stay as
\* they are) and the actor's row as earlier runs left it: none, a role only,
\* or a role and a rating.
InitStores ==
    {[u \in 2..4 |-> ExampleStore[u]],
     [u \in 1..4 |-> IF u = 1 THEN [ExampleStore[1] EXCEPT !.mode = None, !.mmr = None, !.online = 0]
                               ELSE ExampleStore[u]],
     ExampleStore}

\* The buttons pressed, among those a keyboard offers.
PressedModes == {"Ranked", "Turbo"}

PressedPositions == {"1", "2"}

PressedDeltas == {"250", "custom"}

\* A text message: what the user typed and int() of it (None: ValueError).
Token(raw, int) == [raw |-> raw, int |-> int]

TextInputs ==
    {Token("2", Some(2)), Token("abc", None), Token("Cancel", None),
     Token("15000", Some(15000)), Token("0", Some(0)), Token("15001", Some(15001)),
     Token("-1", Some(-1))}

DeltaToken(raw) ==
    CASE raw = "100" -> Token(raw, Some(100))
      [] raw = "250" -> Token(raw, Some(250))
      [] raw = "500" -> Token(raw, Some(500))
      [] OTHER -> Token(raw, None)

Update(u, kind, data, arg) == [user |-> u, kind |-> kind, data |-> data, arg |-> arg, raised |-> FALSE]

Pressed(u, tag, arg) == <<tag, arg>> \in Buttons(screen[u].kb)

Init ==
    /\ store \in InitStores
    /\ searchCall = None
    /\ upsertLog = NoUpsertLog
    /\ fault = "off"
    /\ backRun = NoBackRun
    /\ SessionInit

\* SpecFault: the same, with store calls and deliveries that may fail.
InitFault ==
    /\ store \in InitStores
    /\ searchCall = None
    /\ upsertLog = NoUpsertLog
    /\ fault = "none"
    /\ backRun = NoBackRun
    /\ SessionInit

\* The longest run of updates the model follows.
MaxEvents == 9

\* The longest run of updates followed when calls may fail.
MaxFaultEvents == 6

\* Store calls and deliveries may fail (SpecFault).
FaultsInjected == fault # "off"

\* Nothing failed in the step.
NoFault == IF FaultsInjected THEN "none" ELSE "off"

\* The longest run of updates followed before a run of Back events.
MaxBackEvents == 6

\* One more update handled; none is followed once a run of Back events has
\* begun.
Handled ==
    /\ steps < (IF FaultsInjected THEN MaxFaultEvents ELSE IF backRun.on THEN MaxBackEvents ELSE MaxEvents)
    /\ backRun.sent = 0
    /\ steps' = steps + 1
    /\ UNCHANGED <<upsertLog, race, backRun>>

\* What a handler leaves when nothing fails: the state returned, the dict,
\* the screen delivered.
Deliver(u, state, d, scr, upd) ==
    /\ conv' = [conv EXCEPT ![u] = state]
    /\ user_data' = [user_data EXCEPT ![u] = d]
    /\ screen' = [screen EXCEPT ![u] = scr]
    /\ last' = upd
    /\ fault' = NoFault
    /\ Handled

\* An exception leaves the handler (a store call or a delivery raised and no
\* except clause is around it): the dict is as the handler had made it, no
\* state is returned, so the ConversationHandler keeps the state it had, and
\* nothing is delivered; error_handler only logs.
Raise(u, d, upd, kind) ==
    /\ FaultsInjected
    /\ user_data' = [user_data EXCEPT ![u] = d]
    /\ last' = [upd EXCEPT !.raised = TRUE]
    /\ fault' = kind
    /\ Handled
    /\ UNCHANGED <<conv, screen>>

\* The failure was caught by the handler's except clause, which leaves scr on
\* display (the screen as it was when nothing could be delivered) and returns
\* state.
Caught(u, state, d, scr, upd, kind) ==
    /\ FaultsInjected
    /\ conv' = [conv EXCEPT ![u] = state]
    /\ user_data' = [user_data EXCEPT ![u] = d]
    /\ screen' = [screen EXCEPT ![u] = scr]
    /\ last' = upd
    /\ fault' = kind
    /\ Handled

\* The end of a handler whose last await, the delivery of the screen, is not
\* inside a try: delivered and the state returned, or the delivery raises.
Finish(u, state, d, scr, upd) ==
    \/ Deliver(u, state, d, scr, upd)
    \/ Raise(u, d, upd, "render")

\* A message without reply_markup: the keyboard is removed.
no_keyboard == <<"none">>

\* The messages of the except clauses.
toggle_error == Screen(<<"toggle_error">>, no_keyboard)

mode_save_error == Screen(<<"mode_save_error">>, no_keyboard)

save_error == Screen(<<"save_error">>, no_keyboard)

search_error == Screen(<<"search_error">>, no_keyboard)

\* /start
Start(u) ==
    /\ Finish(u, conv[u], clear_back(user_data[u]), Screen(<<"welcome">>, get_main_keyboard), Update(u, "command", "start", ""))
    /\ searchCall' = None
    /\ UNCHANGED store

\* go_back
GoBack(u) ==
    /\ Pressed(u, "go_back", "")
    /\ LET popped == pop_back(user_data[u])
           r == render_prev(popped.val, u, popped.d)
           upd == Update(u, "callback", "go_back", "")
       IN  \/ Finish(u, "END", r.d, r.screen, upd)
           \/ popped.val = Some("PROFILE") /\ Raise(u, popped.d, upd, "store")
    /\ searchCall' = None
    /\ UNCHANGED store

\* main_menu
MainMenu(u) ==
    /\ Pressed(u, "main_menu", "")
    /\ Finish(u, "END", PopDraft(clear_back(user_data[u])), Screen(<<"main_menu">>, get_main_keyboard), Update(u, "callback", "main_menu", ""))
    /\ searchCall' = None
    /\ UNCHANGED store

\* my_profile
MyProfile(u) ==
    /\ Pressed(u, "my_profile", "")
    /\ LET profile == get_profile(u)
           online == IF profile # None THEN profile[1].online ELSE FALSE
           full_party == IF profile # None THEN profile[1].full_party ELSE FALSE
           text == ProfileText(profile)
           upd == Update(u, "callback", "my_profile", "")
       IN  \/ Finish(u, "END", store_last_text(user_data[u], "PROFILE", text),
                     Screen(text, profile_edit_keyboard_dynamic(online, full_party)), upd)
           \/ Raise(u, user_data[u], upd, "store")
    /\ searchCall' = None
    /\ UNCHANGED store

\* toggle_online: the table after the upsert of the flipped visible flag.
toggle_online_store(u) ==
    LET profile == get_profile(u)
        current_online == IF profile # None THEN profile[1].online ELSE FALSE
    IN  upsert_profile(u, None, None, None, Username(u), Some(IF ~current_online THEN 1 ELSE 0), None)

\* toggle_fullparty: the table after the upsert of the flipped full-party flag.
toggle_fullparty_store(u) ==
    LET profile == get_profile(u)
        current == IF profile # None THEN profile[1].full_party ELSE FALSE
    IN  upsert_profile(u, None, None, None, Username(u), None, Some(IF ~current THEN 1 ELSE 0))

\* toggle_online
ToggleOnline(u) ==
    /\ Pressed(u, "toggle_online", "")
    /\ LET profile == get_profile(u)
           current_online == IF profile # None THEN profile[1].online ELSE FALSE
           new_online == ~current_online
           after == toggle_online_store(u)
           text == IF new_online THEN <<"online_on">> ELSE <<"online_off">>
           full_party == after[u].full_party # 0
           upd == Update(u, "callback", "toggle_online", "")
       IN  \/ /\ store' = after
              /\ Finish(u, "END", store_last_text(user_data[u], "PROFILE", text),
                        Screen(text, profile_edit_keyboard_dynamic(new_online, full_party)), upd)
           \/ UNCHANGED store /\ Raise(u, user_data[u], upd, "store")
           \/ UNCHANGED store /\ Caught(u, "END", user_data[u], toggle_error, upd, "store")
           \/ store' = after /\ Raise(u, user_data[u], upd, "store")
    /\ searchCall' = None

\* toggle_fullparty
ToggleFullParty(u) ==
    /\ Pressed(u, "toggle_fullparty", "")
    /\ LET profile == get_profile(u)
           current == IF profile # None THEN profile[1].full_party ELSE FALSE
           new == ~current
           after == toggle_fullparty_store(u)
           text == IF new THEN <<"full_on">> ELSE <<"full_off">>
           online == after[u].online # 0
           upd == Update(u, "callback", "toggle_fullparty", "")
       IN  \/ /\ store' = after
              /\ Finish(u, "END", store_last_text(user_data[u], "PROFILE", text),
                        Screen(text, profile_edit_keyboard_dynamic(online, new)), upd)
           \/ UNCHANGED store /\ Raise(u, user_data[u], upd, "store")
           \/ UNCHANGED store /\ Caught(u, "END", user_data[u], toggle_error, upd, "store")
           \/ store' = after /\ Raise(u, user_data[u], upd, "store")
    /\ searchCall' = None

\* edit_position
EditPosition(u) ==
    /\ Pressed(u, "edit_position", "")
    /\ Len(BackStack(user_data[u])) < MaxStack
    /\ Finish(u, "POSITION", store_last_text(push_back(user_data[u], "PROFILE"), "POSITION", <<"ask_position">>),
              Screen(<<"ask_position">>, back_menu_keyboard), Update(u, "callback", "edit_position", ""))
    /\ searchCall' = None
    /\ UNCHANGED store

\* edit_mode
EditMode(u) ==
    /\ Pressed(u, "edit_mode", "")
    /\ Len(BackStack(user_data[u])) < MaxStack
    /\ Finish(u, "MODE", store_last_text(push_back(user_data[u], "PROFILE"), "MODE", <<"ask_mode">>),
              Screen(<<"ask_mode">>, mode_selection_keyboard("setmode_")), Update(u, "callback", "edit_mode", ""))
    /\ searchCall' = None
    /\ UNCHANGED store

\* edit_mmr
EditMmr(u) ==
    /\ Pressed(u, "edit_mmr", "")
    /\ Len(BackStack(user_data[u])) < MaxStack
    /\ Finish(u, "MMR", store_last_text(push_back(user_data[u], "PROFILE"), "MMR", <<"ask_mmr">>),
              Screen(<<"ask_mmr">>, back_menu_cancel_keyboard), Update(u, "callback", "edit_mmr", ""))
    /\ searchCall' = None
    /\ UNCHANGED store

\* setmode_<ModeName>
SetMode(u, mode_name) ==
    /\ Pressed(u, "setmode_", mode_name)
    /\ LET after == upsert_profile(u, None, Some(mode_name), None, Username(u), None, None)
           online == after[u].online # 0
           full_party == after[u].full_party # 0
           text == <<"mode_saved", mode_name>>
           upd == Update(u, "callback", "setmode_", mode_name)
       IN  \/ /\ store' = after
              /\ Deliver(u, "END", store_last_text(user_data[u], "PROFILE", text),
                         Screen(text, profile_edit_keyboard_dynamic(online, full_party)), upd)
           \/ UNCHANGED store /\ Caught(u, "END", user_data[u], mode_save_error, upd, "store")
           \/ store' = after /\ Caught(u, "END", user_data[u], mode_save_error, upd, "store")
           \/ /\ store' = after
              /\ Caught(u, "END", store_last_text(user_data[u], "PROFILE", text), mode_save_error, upd, "render")
    /\ searchCall' = None

\* search_party
SearchParty(u) ==
    /\ Pressed(u, "search_party", "")
    /\ LET profile == get_profile(u)
       IN  \/ Raise(u, user_data[u], Update(u, "callback", "search_party", ""), "store")
           \/ IF profile = None \/ ~TruthyStr(profile[1].position)
              THEN Finish(u, "END", user_data[u], Screen(<<"missing_position">>, missing_position_keyboard),
                          Update(u, "callback", "search_party", ""))
              ELSE LET d1 == Set(user_data[u], "own_position", profile[1].position)
                       d2 == Pop(Pop(Pop(d1, "exclude_position"), "specific_position"), "only_full_party")
                       d3 == push_back(clear_back(d2), "MAIN_MENU")
                       d4 == store_last_text(d3, "SEARCH_MODE", <<"choose_search_mode">>)
                   IN  Finish(u, "SEARCH_MODE", d4, Screen(<<"choose_search_mode">>, mode_selection_keyboard("mode_")),
                              Update(u, "callback", "search_party", ""))
    /\ searchCall' = None
    /\ UNCHANGED store

\* mode_<ModeName> and mode_none
ModeChosen(u, arg) ==
    /\ Pressed(u, "mode_", arg)
    /\ LET mode_name == IF arg = "none" THEN None ELSE Some(arg)
           search_pos == Get(user_data[u], "own_position")
       IN  IF ~TruthyStr(search_pos)
           THEN Finish(u, "END", user_data[u], Screen(<<"need_own_position">>, get_main_keyboard),
                       Update(u, "callback", "mode_", arg))
           ELSE /\ Len(BackStack(user_data[u])) < MaxStack
                /\ LET d1 == Set(push_back(user_data[u], "SEARCH_MODE"), "search_mode", mode_name)
                       d2 == store_last_text(d1, "SEARCH_POS_OPTION", <<"ask_pos_option">>)
                   IN  Finish(u, "SEARCH_POS_OPTION", d2,
                              Screen(<<"ask_pos_option">>, search_pos_option_keyboard_dynamic(d2)),
                              Update(u, "callback", "mode_", arg))
    /\ searchCall' = None
    /\ UNCHANGED store

\* toggle_exclude_position
ToggleExcludePosition(u) ==
    /\ Pressed(u, "toggle_exclude_position", "")
    /\ LET cur == Get(user_data[u], "exclude_position")
           new == ~(IF cur # None THEN cur[1] ELSE TRUE)
           d1 == Set(user_data[u], "exclude_position", Some(new))
           d2 == store_last_text(d1, "SEARCH_POS_OPTION", <<"pos_option_action">>)
       IN  Finish(u, "END", d2, Screen(<<"pos_option_action">>, search_pos_option_keyboard_dynamic(d2)),
                  Update(u, "callback", "toggle_exclude_position", ""))
    /\ searchCall' = None
    /\ UNCHANGED store

\* start_search
StartSearch(u) ==
    /\ Pressed(u, "start_search", "")
    /\ Len(BackStack(user_data[u])) < MaxStack
    /\ Finish(u, "SEARCH_FULL_OPTION",
              store_last_text(push_back(user_data[u], "SEARCH_POS_OPTION"), "SEARCH_FULL_OPTION", <<"ask_only_full">>),
              Screen(<<"ask_only_full">>, search_full_option_keyboard), Update(u, "callback", "start_search", ""))
    /\ searchCall' = None
    /\ UNCHANGED store

\* spec_position
SpecPosition(u) ==
    /\ Pressed(u, "spec_position", "")
    /\ Len(BackStack(user_data[u])) < MaxStack
    /\ Finish(u, "SELECT_POSITION",
              store_last_text(push_back(user_data[u], "SEARCH_POS_OPTION"), "SELECT_POSITION", <<"ask_select_position">>),
              Screen(<<"ask_select_position">>, select_position_keyboard), Update(u, "callback", "spec_position", ""))
    /\ searchCall' = None
    /\ UNCHANGED store

\* selectpos_<n>
SelectPos(u, key) ==
    /\ Pressed(u, "selectpos_", key)
    /\ IF key \notin DOMAIN POSITIONS
       THEN Finish(u, "END", user_data[u], Screen(<<"bad_position_choice">>, get_main_keyboard),
                   Update(u, "callback", "selectpos_", key))
       ELSE /\ Len(BackStack(user_data[u])) < MaxStack
            /\ LET d1 == Set(user_data[u], "specific_position", Some(POSITIONS[key]))
                   d2 == push_back(Pop(d1, "exclude_position"), "SELECT_POSITION")
                   d3 == store_last_text(d2, "SEARCH_FULL_OPTION", <<"ask_only_full">>)
               IN  Finish(u, "SEARCH_FULL_OPTION", d3, Screen(<<"ask_only_full">>, search_full_option_keyboard),
                          Update(u, "callback", "selectpos_", key))
    /\ searchCall' = None
    /\ UNCHANGED store

\* only_full_yes and only_full_no
OnlyFull(u, yes) ==
    /\ Pressed(u, IF yes THEN "only_full_yes" ELSE "only_full_no", "")
    /\ Len(BackStack(user_data[u])) < MaxStack
    /\ LET d1 == push_back(Set(user_data[u], "only_full_party", Some(yes)), "SEARCH_FULL_OPTION")
           d2 == store_last_text(d1, "SEARCH_MMR", <<"ask_mmr_options">>)
           text == IF yes THEN <<"full_yes_ask_mmr">> ELSE <<"full_no_ask_mmr">>
       IN  Finish(u, "SEARCH_MMR", d2, Screen(text, search_mmr_keyboard),
                  Update(u, "callback", IF yes THEN "only_full_yes" ELSE "only_full_no", ""))
    /\ searchCall' = None
    /\ UNCHANGED store

\* The screen perform_search_and_reply delivers.
SearchScreen(rec) ==
    CASE rec.outcome = "mmr_missing" -> Screen(<<"need_mmr_in_profile">>, get_main_keyboard)
      [] rec.outcome = "no_results" -> Screen(<<"no_results">>, get_main_keyboard)
      [] OTHER -> Screen(<<"results", rec.rows>>, results_keyboard(rec.rows))

\* The end of the three searching handlers: the search keys and own_position
\* popped, the back stack cleared.
ClearSearch(d) == clear_back(PopDraft(d))

\* The call the searching handlers make: the criteria read from the dict.
PendingSearch(u, mmr_filter) ==
    LET d == user_data[u]
    IN  SearchRecord(u, Get(d, "search_mode"), mmr_filter, Get(d, "exclude_position"),
                     Get(d, "specific_position"), Get(d, "only_full_party"))

\* The searching handlers from the point where they read the criteria.
SearchAndClear(u, mmr_filter, upd) ==
    LET d == user_data[u]
        rec == PendingSearch(u, mmr_filter)
    IN  \/ /\ searchCall' = Some(rec)
           /\ Deliver(u, "END", ClearSearch(d), SearchScreen(rec), upd)
        \/ /\ searchCall' = None
           /\ Caught(u, "END", ClearSearch(d), search_error, upd, "store")
        \/ /\ searchCall' = Some(rec)
           /\ \E fallback \in BOOLEAN :
                  /\ fallback => rec.outcome = "results"
                  /\ Caught(u, "END", ClearSearch(d), IF fallback THEN SearchScreen(rec) ELSE screen[u], upd, "render")

\* A plausible bug: a missing rating read as 0.
user_mmr_or_zero(profile) == IF profile # None /\ profile[1].mmr # None THEN profile[1].mmr ELSE Some(0)

\* user_mmr = profile.get("mmr") if profile else None
user_mmr(profile) == IF profile # None THEN profile[1].mmr ELSE None

\* mmr_none
MmrNone(u) ==
    /\ Pressed(u, "mmr_none", "")
    /\ SearchAndClear(u, None, Update(u, "callback", "mmr_none", ""))
    /\ UNCHANGED store

\* delta_<n>, and delta_custom, which the same branch takes: int("custom")
\* raises ValueError, nothing is delivered and the state is kept.
Delta(u, raw) ==
    /\ Pressed(u, "delta_", raw)
    /\ LET delta == DeltaToken(raw).int
           profile == get_profile(u)
           upd == Update(u, "callback", "delta_", raw)
       IN  IF delta = None
           THEN /\ last' = [upd EXCEPT !.raised = TRUE]
                /\ searchCall' = None
                /\ fault' = NoFault
                /\ Handled
                /\ UNCHANGED <<conv, user_data, screen>>
           ELSE \/ Raise(u, user_data[u], upd, "store") /\ searchCall' = None
                \/ IF user_mmr(profile) = None
                   THEN /\ Finish(u, "END", user_data[u], Screen(<<"need_mmr">>, missing_mmr_keyboard), upd)
                        /\ searchCall' = None
                   ELSE SearchAndClear(u, delta, upd)
    /\ UNCHANGED store

\* txt.lower() in ("otmena" (the Russian keyword, transliterated), "cancel")
IsCancel(txt) == Lower(txt.raw) \in {"otmena", "cancel"}

\* The cancel keyword in a text state: pop_back and render_prev.
CancelText(u, upd) ==
    LET popped == pop_back(user_data[u])
        r == render_prev(popped.val, u, popped.d)
    IN  \/ Finish(u, "END", r.d, r.screen, upd)
        \/ popped.val = Some("PROFILE") /\ Raise(u, popped.d, upd, "store")

\* get_position: a text message in state POSITION
GetPosition(u, txt) ==
    /\ conv[u] = "POSITION"
    /\ LET upd == Update(u, "text", "POSITION", txt.raw)
       IN  IF IsCancel(txt)
           THEN CancelText(u, upd) /\ UNCHANGED store
           ELSE IF txt.raw \notin DOMAIN POSITIONS
           THEN /\ Finish(u, "POSITION", user_data[u], Screen(<<"bad_position_input">>, back_menu_keyboard), upd)
                /\ UNCHANGED store
           ELSE \/ /\ store' = upsert_profile(u, Some(POSITIONS[txt.raw]), None, None, Username(u), None, None)
                   /\ Finish(u, "END", user_data[u], Screen(<<"position_saved", POSITIONS[txt.raw]>>, get_main_keyboard), upd)
                \/ UNCHANGED store /\ Caught(u, "END", user_data[u], save_error, upd, "store")
    /\ searchCall' = None

\* get_mmr: a text message in state MMR
GetMmr(u, txt) ==
    /\ conv[u] = "MMR"
    /\ LET upd == Update(u, "text", "MMR", txt.raw)
       IN  IF IsCancel(txt)
           THEN CancelText(u, upd) /\ UNCHANGED store
           ELSE IF txt.int = None \/ txt.int[1] < 0 \/ txt.int[1] > MMR_MAX
           THEN /\ Finish(u, "MMR", user_data[u], Screen(<<"bad_mmr_input">>, back_menu_cancel_keyboard), upd)
                /\ UNCHANGED store
           ELSE \/ /\ store' = upsert_profile(u, None, None, txt.int, Username(u), None, None)
                   /\ Finish(u, "END", user_data[u], Screen(<<"mmr_saved">>, get_main_keyboard), upd)
                \/ UNCHANGED store /\ Caught(u, "END", user_data[u], save_error, upd, "store")
    /\ searchCall' = None

\* get_search_mmr_custom: a text message in state SEARCH_MMR
GetSearchMmrCustom(u, txt) ==
    /\ conv[u] = "SEARCH_MMR"
    /\ LET upd == Update(u, "text", "SEARCH_MMR", txt.raw)
           profile == get_profile(u)
       IN  IF IsCancel(txt)
           THEN CancelText(u, upd) /\ searchCall' = None
           ELSE IF txt.int = None \/ txt.int[1] <= 0
           THEN /\ Finish(u, "SEARCH_MMR", user_data[u], Screen(<<"bad_delta_input">>, back_menu_keyboard), upd)
                /\ searchCall' = None
           ELSE \/ Raise(u, user_data[u], upd, "store") /\ searchCall' = None
                \/ IF user_mmr(profile) = None
                   THEN /\ Finish(u, "END", user_data[u], Screen(<<"need_mmr">>, missing_mmr_keyboard), upd)
                        /\ searchCall' = None
                   ELSE SearchAndClear(u, txt.int, upd)
    /\ UNCHANGED store

Next ==
    \E u \in Actors :
        \/ Start(u)
        \/ GoBack(u)
        \/ MainMenu(u)
        \/ MyProfile(u)
        \/ ToggleOnline(u)
        \/ ToggleFullParty(u)
        \/ EditPosition(u)
        \/ EditMode(u)
        \/ EditMmr(u)
        \/ \E m \in PressedModes : SetMode(u, m)
        \/ SearchParty(u)
        \/ \E m \in PressedModes \cup {"none"} : ModeChosen(u, m)
        \/ ToggleExcludePosition(u)
        \/ StartSearch(u)
        \/ SpecPosition(u)
        \/ \E k \in PressedPositions : SelectPos(u, k)
        \/ \E yes \in BOOLEAN : OnlyFull(u, yes)
        \/ MmrNone(u)
        \/ \E raw \in PressedDeltas : Delta(u, raw)
        \/ \E txt \in TextInputs : GetPosition(u, txt)
        \/ \E txt \in TextInputs : GetMmr(u, txt)
        \/ \E txt \in TextInputs : GetSearchMmrCustom(u, txt)

Spec == Init /\ [][Next]_vars

SpecFault == InitFault /\ [][Next]_vars

\* SpecBack: the conversation, then a run of Back events and nothing else.
InitBack ==
    /\ store \in InitStores
    /\ searchCall = None
    /\ upsertLog = NoUpsertLog
    /\ fault = "off"
    /\ backRun = [on |-> TRUE, sent |-> 0]
    /\ SessionInit

\* The longest run of Back events followed: one more than the deepest stack.
MaxBackRun == MaxStack + 1

\* One Back event of the run: the go_back button of any message still in the
\* chat (button_handler is the entry point and takes a callback in every
\* state), or the cancel keyword typed in a text-input state. Both pop the
\* stack and render what was popped, and return END.
KeepBack(u) ==
    /\ backRun.on
    /\ backRun.sent < MaxBackRun
    /\ LET popped == pop_back(user_data[u])
           r == render_prev(popped.val, u, popped.d)
       IN  /\ conv' = [conv EXCEPT ![u] = "END"]
           /\ user_data' = [user_data EXCEPT ![u] = r.d]
           /\ screen' = [screen EXCEPT ![u] = r.screen]
    /\ \/ last' = Update(u, "callback", "go_back", "")
       \/ /\ conv[u] \in {"POSITION", "MMR", "SEARCH_MMR"}
          /\ last' = Update(u, "text", conv[u], "Cancel")
    /\ backRun' = [backRun EXCEPT !.sent = @ + 1]
    /\ searchCall' = None
    /\ UNCHANGED <<store, upsertLog, steps, fault, race>>

NextBack ==
    \/ Next
    \/ \E u \in Actors : KeepBack(u)

\* Every Back the user sends is handled: the application takes the updates
\* off its queue one after the other and button_handler never waits.
SpecBack == InitBack /\ [][NextBack]_vars /\ WF_vars(\E u \in Actors : KeepBack(u))

-----------------------------------------------------------------------------
(* Properties of the conversation, checked under Spec.                     *)

\* The search draft of user u: the keys the searching handlers pop.
Draft(u) == [k \in DOMAIN user_data[u] \cap DraftKeys |-> user_data[u][k]]

\* The stored rating of user u (None: no row, or a row without a rating).
StoredRating(u) == IF u \in DOMAIN store THEN store[u].mmr ELSE None

\* The update just handled chose a fixed tolerance: delta_<n> with a number.
LastFixedDelta == last.kind = "callback" /\ last.data = "delta_" /\ ~last.raised

\* The update just handled was a custom tolerance typed at the rating step: a
\* positive integer (the cancel keywords and rejected inputs are no choice).
LastCustomDelta ==
    /\ last.kind = "text"
    /\ last.data = "SEARCH_MMR"
    /\ \E t \in TextInputs : t.raw = last.arg /\ ~IsCancel(t) /\ t.int # None /\ t.int[1] > 0

\* The update just handled chose "no rating filter".
LastMmrNone == last.kind = "callback" /\ last.data = "mmr_none"

\* C3: the draft never holds exclude-own set to true together with a specific
\* position, whatever the sequence of events (Back navigation included).
C3_ExcludeOwnXorSpecific ==
    \A u \in Actors :
        ~(/\ Get(user_data[u], "exclude_position") = Some(TRUE)
          /\ Get(user_data[u], "specific_position") # None)

\* C7: a search requested with a concrete tolerance (delta_<n> or custom text)
\* by a requester without a stored rating ends in the rating-missing outcome:
\* the rating-missing screen is delivered, no search is run and no list shown.
C7_RatingMissingFails ==
    ((LastFixedDelta \/ LastCustomDelta) /\ StoredRating(last.user) = None) =>
        /\ searchCall = None
        /\ screen[last.user].text = <<"need_mmr">>
        /\ conv[last.user] = "END"

C7_Witness ==
    /\ LastFixedDelta
    /\ StoredRating(last.user) = None
    /\ screen[last.user].text = <<"need_mmr">>
    /\ Get(user_data[last.user], "search_mode") = Some("Ranked")

C7_WitnessCustom ==
    /\ LastCustomDelta
    /\ StoredRating(last.user) = None
    /\ screen[last.user].text = <<"need_mmr">>

\* C10: after every rating option handled at the rating step (mmr_none, a
\* fixed delta_<n>, a custom tolerance typed as text) the search has been run
\* on the draft's criteria, the draft is empty, the back stack is empty and the
\* conversation is idle.
C10_RatingOptionSearchesAndClears ==
    (LastMmrNone \/ LastFixedDelta \/ LastCustomDelta) =>
        /\ searchCall # None
        /\ Draft(last.user) = EmptyDict
        /\ BackStack(user_data[last.user]) = <<>>
        /\ conv[last.user] = "END"

\* One update handled by this step, by user u: a callback with this data.
CallbackStep(u, data) ==
    /\ steps' = steps + 1
    /\ last'.user = u
    /\ last'.kind = "callback"
    /\ last'.data = data
    /\ ~last'.raised

\* One update handled by this step, by user u: a text message in this state.
TextStep(u, state) ==
    /\ steps' = steps + 1
    /\ last'.user = u
    /\ last'.kind = "text"
    /\ last'.data = state

\* C11: main_menu, in whatever conversation state and with whatever session
\* content, leaves the draft empty and the back stack empty, ends the
\* conversation (Idle) and leaves the profile store as it was.
C11_MainMenuClears ==
    [][\A u \in Actors :
          CallbackStep(u, "main_menu") =>
              /\ Draft(u)' = EmptyDict
              /\ BackStack(user_data[u])' = <<>>
              /\ conv'[u] = "END"
              /\ store' = store]_vars

\* main_menu pressed at the rating step of the search flow, as the sixth
\* update (/start, search_party, mode_, start_search, only_full_, main_menu):
\* the draft held three keys and the stack four entries when it was pressed.
C11_Witness ==
    /\ last.kind = "callback"
    /\ last.data = "main_menu"
    /\ steps = 6
    /\ get_last_text(user_data[last.user], "SEARCH_MMR") # None
    /\ Draft(last.user) = EmptyDict
    /\ BackStack(user_data[last.user]) = <<>>
    /\ conv[last.user] = "END"

\* The main-menu screen is on display for user u: the main keyboard under the
\* main-menu text (main_menu, Back), the greeting (/start) or the confirmation
\* of a saved role or rating.
MainMenuShown(u) ==
    /\ screen[u].kb = get_main_keyboard
    /\ screen[u].text[1] \in {"main_menu", "welcome", "position_saved", "mmr_saved"}

\* C12: whenever the main-menu screen is shown to a user, by whatever route,
\* that user's draft and back stack are both empty.
C12_MainMenuMeansCleared ==
    \A u \in Actors :
        MainMenuShown(u) =>
            /\ Draft(u) = EmptyDict
            /\ BackStack(user_data[u]) = <<>>

\* The step handles a Back event of user u: go_back, or the cancel keyword
\* typed in a text-input state.
BackStep(u) ==
    \/ CallbackStep(u, "go_back")
    \/ /\ TextStep(u, last'.data)
       /\ IsCancel([raw |-> last'.arg])

\* The keyboard kb is the one of the screen a stack entry names.
KeyboardOf(entry, kb) ==
    CASE entry = "MAIN_MENU" -> kb = get_main_keyboard
      [] entry = "PROFILE" -> kb[1] = "profile"
      [] entry = "SEARCH_MODE" -> kb = mode_selection_keyboard("mode_")
      [] entry = "SEARCH_POS_OPTION" -> kb[1] = "search_pos_option"
      [] entry = "SELECT_POSITION" -> kb = select_position_keyboard
      [] entry = "SEARCH_FULL_OPTION" -> kb = search_full_option_keyboard
      [] entry = "SEARCH_MMR" -> kb = search_mmr_keyboard
      [] OTHER -> FALSE

\* C13: a Back event (go_back in any state, or the cancel keyword in a
\* text-input state) removes exactly the top entry of a non-empty back stack
\* and renders the screen that entry names, renders the main menu on an empty
\* stack, and either way ends the conversation and leaves the draft and the
\* profile store unchanged.
C13_BackPopsAndRenders ==
    [][\A u \in Actors :
          BackStep(u) =>
              LET stack == BackStack(user_data[u])
              IN  /\ IF stack = <<>>
                     THEN /\ BackStack(user_data[u])' = <<>>
                          /\ screen'[u] = Screen(<<"main_menu">>, get_main_keyboard)
                     ELSE /\ BackStack(user_data[u])' = SubSeq(stack, 1, Len(stack) - 1)
                          /\ KeyboardOf(stack[Len(stack)], screen'[u].kb)
                  /\ conv'[u] = "END"
                  /\ Draft(u)' = Draft(u)
                  /\ store' = store]_vars

\* The cancel keyword typed in the rating-edit state, acting as Back: the
\* PROFILE entry popped, the profile screen rendered.
C13_Witness ==
    /\ last.kind = "text"
    /\ last.data = "MMR"
    /\ last.arg = "Cancel"
    /\ screen[last.user].kb[1] = "profile"
    /\ conv[last.user] = "END"
    /\ steps = 4

\* go_back at the rating step of the search flow with a draft of three keys.
C13_WitnessGoBack ==
    /\ last.kind = "callback"
    /\ last.data = "go_back"
    /\ screen[last.user].kb = search_full_option_keyboard
    /\ Get(user_data[last.user], "only_full_party") # None

\* One Back handled on the dict d of user u: pop_back, then render_prev.
BackOnce(u, d) ==
    LET popped == pop_back(d)
    IN  render_prev(popped.val, u, popped.d)

\* The screen and the dict after n consecutive Back events, from r.
RECURSIVE BackRun(_, _, _)
BackRun(u, r, n) == IF n = 0 THEN r ELSE BackRun(u, BackOnce(u, r.d), n - 1)

\* n consecutive Back events can be sent from r: each screen on the way
\* offers go_back.
RECURSIVE BackRunOffered(_, _, _)
BackRunOffered(u, r, n) ==
    \/ n = 0
    \/ /\ <<"go_back", "">> \in Buttons(r.screen.kb)
       /\ BackRunOffered(u, BackOnce(u, r.d), n - 1)

\* A run of n >= 1 Back events can start now: go_back is on the keyboard, or
\* the conversation is in a text-input state (the cancel keyword).
BackRunPossible(u, n) ==
    /\ Pressed(u, "go_back", "") \/ conv[u] \in {"POSITION", "MMR", "SEARCH_MMR"}
    /\ BackRunOffered(u, BackOnce(u, user_data[u]), n - 1)

\* The run of n Back events from the current state ends on the main menu.
BackRunEndsOnMainMenu(u, n) ==
    BackRun(u, [screen |-> screen[u], d |-> user_data[u]], n).screen = Screen(<<"main_menu">>, get_main_keyboard)

\* The lengths of the runs examined.
BackRuns == 1..(MaxStack + 1)

\* The entries of the stack other than the MAIN_MENU marker.
ScreenEntries(stack) == {i \in 1..Len(stack) : stack[i] # "MAIN_MENU"}

\* C14 as stated: from any reachable state a run of N consecutive Back
\* events ends with the main menu rendered exactly when the back stack held
\* fewer than N entries when the run began.
C14_BackRunAsStated ==
    \A u \in Actors : \A n \in BackRuns :
        BackRunPossible(u, n) =>
            (BackRunEndsOnMainMenu(u, n) <=> Len(BackStack(user_data[u])) < n)

\* C14 (amended): a run of N consecutive Back events ends with the main menu
\* rendered exactly when the back stack held fewer than N entries other than
\* the MAIN_MENU marker when the run began.
C14_BackRunAmended ==
    \A u \in Actors : \A n \in BackRuns :
        BackRunPossible(u, n) =>
            (BackRunEndsOnMainMenu(u, n) <=>
                Cardinality(ScreenEntries(BackStack(user_data[u]))) < n)

\* Two Back events in a row from the position-option step of the search flow
\* (/start, search_party, mode_, go_back, go_back): the stack held the marker
\* and SEARCH_MODE, and the second Back rendered the main menu.
C14_Witness ==
    /\ steps = 5
    /\ last.kind = "callback"
    /\ last.data = "go_back"
    /\ Get(user_data[last.user], "search_mode") # None
    /\ screen[last.user] = Screen(<<"main_menu">>, get_main_keyboard)
    /\ BackStack(user_data[last.user]) = <<>>

\* The step handles a forward transition of user u that pushed an entry onto
\* the back stack.
PushStep(u) ==
    /\ steps' = steps + 1
    /\ last'.user = u
    /\ last'.kind = "callback"
    /\ BackStack(user_data[u])' # <<>>
    /\ \/ BackStack(user_data[u])' = Append(BackStack(user_data[u]), BackStack(user_data[u])'[Len(BackStack(user_data[u])')])
       \/ last'.data = "search_party" /\ BackStack(user_data[u])' = <<"MAIN_MENU">>

\* C15: after every forward transition that pushes onto the back stack, an
\* immediately following Back renders exactly the text that was on display
\* when the pushing button was pressed, whichever screen that was.
C15_PushThenBackRestoresText ==
    [][\A u \in Actors :
          PushStep(u) => BackOnce(u, user_data[u])'.screen.text = screen[u].text]_vars

\* The screen identifiers render_prev renders.
BackScreens == {"MAIN_MENU", "PROFILE", "SEARCH_MODE", "SEARCH_POS_OPTION", "SELECT_POSITION", "SEARCH_FULL_OPTION", "SEARCH_MMR"}

\* The update just handled was a Back event.
LastBack ==
    \/ last.kind = "callback" /\ last.data = "go_back"
    \/ last.kind = "text" /\ IsCancel([raw |-> last.arg])

\* C16: for every screen identifier Back can render, the keyboard (buttons
\* and toggle labels) is the same whether the text comes from the cache or is
\* regenerated, and depends only on the identifier, the draft and the stored
\* online / full-party flags: rendering from the draft alone, without cached
\* texts, gives the same keyboard; the keyboard a Back delivered is one of
\* these.
C16_SameKeyboardWhateverText ==
    \A u \in Actors :
        /\ \A p \in BackScreens :
              render_prev(Some(p), u, user_data[u]).screen.kb = render_prev(Some(p), u, Draft(u)).screen.kb
        /\ (LastBack /\ last.user = u) =>
              screen[u].kb \in {render_prev(Some(p), u, Draft(u)).screen.kb : p \in BackScreens}

\* Back onto the position-option screen after the toggle was switched off:
\* the text comes from the cache, the label shows OFF.
C16_Witness ==
    /\ last.kind = "callback"
    /\ last.data = "go_back"
    /\ screen[last.user].kb = <<"search_pos_option", FALSE>>
    /\ screen[last.user].text = <<"pos_option_action">>
    /\ get_last_text(user_data[last.user], "SEARCH_POS_OPTION") = Some(<<"pos_option_action">>)

\* The exclude-own flag of the draft as the position-option screen shows it:
\* unset counts as on.
ExcludeOwnShown(d) == IF Get(d, "exclude_position") = None THEN TRUE ELSE Get(d, "exclude_position")[1]

\* C17: toggle_exclude_position at the position-option step flips the draft's
\* exclude-own flag and changes nothing else: the rest of the draft, the back
\* stack and the profile store are unchanged, and the conversation state is
\* still SEARCH_POS_OPTION after the event.
C17_ToggleInPlace ==
    [][\A u \in Actors :
          (CallbackStep(u, "toggle_exclude_position") /\ conv[u] = "SEARCH_POS_OPTION") =>
              /\ Get(user_data[u], "exclude_position")' = Some(~ExcludeOwnShown(user_data[u]))
              /\ \A k \in DraftKeys \ {"exclude_position"} : Get(user_data[u], k)' = Get(user_data[u], k)
              /\ BackStack(user_data[u])' = BackStack(user_data[u])
              /\ store' = store
              /\ conv'[u] = "SEARCH_POS_OPTION"]_vars

\* The token typed, as TextInputs lists it.
TokenOf(raw) == CHOOSE t \in TextInputs : t.raw = raw

\* The text typed is an invalid input of the text-input state: a role token
\* other than 1..5, a rating that is no integer or lies outside [0, 15000], a
\* custom tolerance that is no integer or is not positive.  The cancel
\* keywords are Back, not input.
InvalidInput(state, raw) ==
    LET t == TokenOf(raw)
    IN  /\ ~IsCancel(t)
        /\ CASE state = "POSITION" -> raw \notin {"1", "2", "3", "4", "5"}
             [] state = "MMR" -> t.int = None \/ t.int[1] < 0 \/ t.int[1] > 15000
             [] state = "SEARCH_MMR" -> t.int = None \/ t.int[1] <= 0
             [] OTHER -> FALSE

\* The error screen of a text-input state.
ErrorScreen(state) ==
    CASE state = "POSITION" -> Screen(<<"bad_position_input">>, back_menu_keyboard)
      [] state = "MMR" -> Screen(<<"bad_mmr_input">>, back_menu_cancel_keyboard)
      [] OTHER -> Screen(<<"bad_delta_input">>, back_menu_keyboard)

\* C18: an invalid input in a text-input state keeps the conversation in the
\* same state with an error screen and leaves the profile store, the draft
\* and the back stack unchanged.
C18_InvalidInputSelfLoops ==
    [][\A u \in Actors :
          (TextStep(u, conv[u]) /\ InvalidInput(conv[u], last'.arg)) =>
              /\ conv'[u] = conv[u]
              /\ screen'[u] = ErrorScreen(conv[u])
              /\ store' = store
              /\ Draft(u)' = Draft(u)
              /\ BackStack(user_data[u])' = BackStack(user_data[u])]_vars

\* A rating just above the range typed in the rating-edit state by a user with
\* a stored rating: the error screen, the state kept, the rating as it was.
C18_Witness ==
    /\ last.kind = "text"
    /\ last.data = "MMR"
    /\ last.arg = "15001"
    /\ conv[last.user] = "MMR"
    /\ screen[last.user].text = <<"bad_mmr_input">>
    /\ StoredRating(last.user) = Some(4000)
    /\ BackStack(user_data[last.user]) # <<>>

\* A tolerance of 0 typed at the rating step of the search flow.
C18_WitnessDelta ==
    /\ last.kind = "text"
    /\ last.data = "SEARCH_MMR"
    /\ last.arg = "0"
    /\ conv[last.user] = "SEARCH_MMR"
    /\ screen[last.user].text = <<"bad_delta_input">>
    /\ Draft(last.user) # EmptyDict

\* The callback data of the search flow.
SearchFlowData ==
    {"search_party", "mode_", "toggle_exclude_position", "start_search", "spec_position",
     "selectpos_", "only_full_yes", "only_full_no", "mmr_none", "delta_"}

\* The step handles an event of the search flow of user u.
SearchFlowStep(u) ==
    \/ \E data \in SearchFlowData : CallbackStep(u, data)
    \/ TextStep(u, "SEARCH_MMR")

\* The row of user u, or the row an INSERT of nothing would create.
RowOrDefault(u) ==
    IF u \in DOMAIN store THEN store[u]
    ELSE [position |-> None, mode |-> None, mmr |-> None, username |-> None, online |-> 0, full_party |-> 0]

\* The step stored value v in field f of user u's row and changed nothing
\* else but the handle.
OnlyFieldChanged(u, f, v) ==
    /\ DOMAIN store' = DOMAIN store \cup {u}
    /\ store'[u][f] = Some(v)
    /\ \A g \in Fields \ {f, "username"} : store'[u][g] = RowOrDefault(u)[g]
    /\ \A w \in DOMAIN store \ {u} : store'[w] = store[w]

\* C19: no event of the search flow changes any row of the profile store; an
\* accepted role, mode or rating input changes the store in the same step,
\* and only the edited field (and the handle) of the acting user's row.
C19_SearchNeverWritesEditsOneField ==
    [][\A u \in Actors :
          /\ SearchFlowStep(u) => store' = store
          /\ (TextStep(u, "POSITION") /\ last'.arg \in DOMAIN POSITIONS) =>
                OnlyFieldChanged(u, "position", POSITIONS[last'.arg])
          /\ CallbackStep(u, "setmode_") =>
                OnlyFieldChanged(u, "mode", last'.arg)
          /\ (TextStep(u, "MMR") /\ ~InvalidInput("MMR", last'.arg) /\ ~IsCancel(TokenOf(last'.arg))) =>
                OnlyFieldChanged(u, "mmr", TokenOf(last'.arg).int[1])]_vars

\* A rating of 0 saved for a user who is online with a role and a mode: the
\* rating is stored, the other fields are as they were.
C19_Witness ==
    /\ last.kind = "text"
    /\ last.data = "MMR"
    /\ last.arg = "0"
    /\ StoredRating(last.user) = Some(0)
    /\ store[last.user].online = 1
    /\ store[last.user].position = Some("Mid")
    /\ screen[last.user].text = <<"mmr_saved">>

\* A search run by a user: the store is the initial one.
C19_WitnessSearch ==
    /\ searchCall # None
    /\ LastMmrNone
    /\ store \in InitStores

\* The profile keyboard delivered shows the flags stored after the step: the
\* online label first, the full-party label second.
StoredFlagsShown(u) ==
    screen'[u].kb = <<"profile", store'[u].online # 0, store'[u].full_party # 0>>

\* C20: toggle_fullparty flips the stored full-party flag, the profile screen
\* shows the value just stored, the visible flag is untouched, and a second
\* toggle right after it stores the original value again; the same holds for
\* toggle_online and the visible flag.
C20_TogglesFlipAndShow ==
    [][\A u \in Actors :
          /\ CallbackStep(u, "toggle_fullparty") =>
                /\ store'[u].full_party = 1 - RowOrDefault(u).full_party
                /\ store'[u].online = RowOrDefault(u).online
                /\ StoredFlagsShown(u)
                /\ toggle_fullparty_store(u)'[u].full_party = RowOrDefault(u).full_party
                /\ toggle_fullparty_store(u)'[u].online = RowOrDefault(u).online
          /\ CallbackStep(u, "toggle_online") =>
                /\ store'[u].online = 1 - RowOrDefault(u).online
                /\ store'[u].full_party = RowOrDefault(u).full_party
                /\ StoredFlagsShown(u)
                /\ toggle_online_store(u)'[u].online = RowOrDefault(u).online
                /\ toggle_online_store(u)'[u].full_party = RowOrDefault(u).full_party]_vars

\* toggle_fullparty pressed twice in a row on the profile screen (/start,
\* my_profile, toggle_fullparty, toggle_fullparty): the store is the initial
\* one again and the label shows the flag off.
C20_Witness ==
    /\ steps = 4
    /\ last.kind = "callback"
    /\ last.data = "toggle_fullparty"
    /\ store = ExampleStore
    /\ screen[last.user].kb = <<"profile", TRUE, FALSE>>
    /\ screen[last.user].text = <<"full_off">>

\* The requester has no row or no stored role.
NoStoredRole(u) == get_profile(u) = None \/ ~TruthyStr(get_profile(u)[1].position)

\* C21: a search_party event of a user with no profile or no stored role
\* shows the missing-role screen, whose keyboard offers edit_position, pushes
\* nothing, writes nothing to the draft, invokes no search, writes no row and
\* leaves the conversation in END.
C21_NoRoleNoSearchFlow ==
    [][\A u \in Actors :
          (CallbackStep(u, "search_party") /\ NoStoredRole(u)) =>
              /\ screen'[u].text = <<"missing_position">>
              /\ <<"edit_position", "">> \in Buttons(screen'[u].kb)
              /\ BackStack(user_data[u])' = BackStack(user_data[u])
              /\ Draft(u)' = Draft(u)
              /\ searchCall' = None
              /\ store' = store
              /\ conv'[u] = "END"]_vars

\* search_party was pressed by a user whose row exists without a role, and by
\* a user with no row, while a back stack was held.
C21_Witness ==
    /\ last.kind = "callback" /\ last.data = "search_party"
    /\ 1 \in DOMAIN store /\ store[1].position = None
    /\ screen[1].text = <<"missing_position">>

C21_WitnessNoRow ==
    /\ last.kind = "callback" /\ last.data = "search_party"
    /\ 1 \notin DOMAIN store
    /\ screen[1].text = <<"missing_position">>
    /\ conv[1] = "END"

\* The forward steps of the search flow: callback data, the screen left (the
\* step identifier pushed) and the state returned.
ForwardSteps ==
    { [data |-> "mode_", left |-> "SEARCH_MODE", next |-> "SEARCH_POS_OPTION"],
      [data |-> "start_search", left |-> "SEARCH_POS_OPTION", next |-> "SEARCH_FULL_OPTION"],
      [data |-> "spec_position", left |-> "SEARCH_POS_OPTION", next |-> "SELECT_POSITION"],
      [data |-> "selectpos_", left |-> "SELECT_POSITION", next |-> "SEARCH_FULL_OPTION"],
      [data |-> "only_full_yes", left |-> "SEARCH_FULL_OPTION", next |-> "SEARCH_MMR"],
      [data |-> "only_full_no", left |-> "SEARCH_FULL_OPTION", next |-> "SEARCH_MMR"] }

\* The two orders in which the screens of the search flow are left.
ForwardPaths ==
    { <<"MAIN_MENU", "SEARCH_MODE", "SEARCH_POS_OPTION", "SEARCH_FULL_OPTION">>,
      <<"MAIN_MENU", "SEARCH_MODE", "SEARCH_POS_OPTION", "SELECT_POSITION", "SEARCH_FULL_OPTION">> }

\* stack is the main-menu marker followed by the first screens of a path.
OnForwardPath(stack) == Len(stack) >= 1 /\ \E p \in ForwardPaths : Len(stack) <= Len(p) /\ stack = SubSeq(p, 1, Len(stack))

\* The button was pressed on the screen the step leaves. Every forward button
\* is on one keyboard only, except mode_none, which mode_selection_keyboard
\* also puts on the edit-mode keyboard of the profile.
OnScreenLeft(u, f) == f.data = "mode_" => screen[u].kb = mode_selection_keyboard("mode_")

\* C25: search_party of a user with a role leaves the stack holding the
\* main-menu marker alone; each forward step of the search flow, pressed on
\* the screen of its step, pushes exactly one entry, the identifier of the screen left, and returns the next state;
\* a mode selection (mode_none included) stores the mode in the draft; a
\* stack that is the marker followed by the screens left, in order, is so
\* again after the step.
C25_ForwardStepPushesOne ==
    [][\A u \in Actors :
          /\ (CallbackStep(u, "search_party") /\ ~NoStoredRole(u)) =>
                 /\ BackStack(user_data[u])' = <<"MAIN_MENU">>
                 /\ conv'[u] = "SEARCH_MODE"
          /\ \A f \in ForwardSteps :
                 (CallbackStep(u, f.data) /\ OnScreenLeft(u, f)) =>
                     /\ BackStack(user_data[u])' = Append(BackStack(user_data[u]), f.left)
                     /\ conv'[u] = f.next
                     /\ OnForwardPath(BackStack(user_data[u])) => OnForwardPath(BackStack(user_data[u])')
                     /\ f.data = "mode_" =>
                            Get(user_data[u], "search_mode")' = (IF last'.arg = "none" THEN None ELSE Some(last'.arg))
                     /\ store' = store /\ searchCall' = None]_vars

\* search_party followed by four forward steps through the specific-position
\* branch, and by a mode_none selection.
C25_Witness ==
    /\ steps = 6
    /\ last.kind = "callback" /\ last.data = "only_full_no"
    /\ BackStack(user_data[1]) = <<"MAIN_MENU", "SEARCH_MODE", "SEARCH_POS_OPTION", "SELECT_POSITION", "SEARCH_FULL_OPTION">>
    /\ conv[1] = "SEARCH_MMR"

C25_WitnessModeNone ==
    /\ last.kind = "callback" /\ last.data = "mode_" /\ last.arg = "none"
    /\ "search_mode" \in DOMAIN user_data[1] /\ user_data[1]["search_mode"] = None
    /\ BackStack(user_data[1]) = <<"MAIN_MENU", "SEARCH_MODE">>
    /\ conv[1] = "SEARCH_POS_OPTION"

\* The screen of the delta_custom branch (lines 688-694): the prompt for a
\* custom tolerance, with the Back and menu buttons.
custom_delta_prompt == Screen(<<"ask_custom_delta">>, back_menu_keyboard)

\* C26: a text message is treated as a custom rating tolerance, and runs a
\* search, only when the custom-tolerance prompt is on display, never while
\* the rating-option screen (or any other screen) is.
C26_TextOnlyAfterDeltaCustom ==
    [][\A u \in Actors :
          (TextStep(u, "SEARCH_MMR") /\ searchCall' # None) =>
              /\ screen[u] = custom_delta_prompt
              /\ screen[u].kb # search_mmr_keyboard]_vars

\* C27: delta_custom pressed at the rating step is handled without an error,
\* pushes SEARCH_MMR on the back stack, shows the custom-tolerance prompt,
\* keeps the conversation in SEARCH_MMR and invokes no search.
C27_DeltaCustomHandled ==
    [][\A u \in Actors :
          (steps' = steps + 1 /\ last'.user = u /\ last'.kind = "callback" /\ last'.data = "delta_" /\ last'.arg = "custom") =>
              /\ ~last'.raised
              /\ BackStack(user_data[u])' = Append(BackStack(user_data[u]), "SEARCH_MMR")
              /\ screen'[u] = custom_delta_prompt
              /\ conv'[u] = "SEARCH_MMR"
              /\ searchCall' = None]_vars

\* The roles and the game modes a row may hold.
Roles == {POSITIONS[k] : k \in DOMAIN POSITIONS}

Modes == Range(GAME_MODES)

\* C28: in every reachable state every row of the actor has a rating that is
\* absent or an integer in [0, 15000], a role that is absent or one of the
\* five roles, and a mode that is absent or one of the four game modes,
\* whatever buttons were pressed and whatever text was typed.
C28_StoredFieldsInRange ==
    \A u \in Actors \cap DOMAIN store :
        /\ store[u].mmr = None \/ (store[u].mmr[1] \in Int /\ store[u].mmr[1] >= 0 /\ store[u].mmr[1] <= 15000)
        /\ store[u].position = None \/ store[u].position[1] \in Roles
        /\ store[u].mode = None \/ store[u].mode[1] \in Modes

\* The bounds were typed and accepted: 15000 is stored, and 0 is stored.
C28_Witness ==
    /\ last.kind = "text" /\ last.data = "MMR" /\ last.arg = "15000"
    /\ StoredRating(1) = Some(15000)
    /\ conv[1] = "END"

C28_WitnessZero ==
    /\ last.kind = "text" /\ last.data = "MMR" /\ last.arg = "0"
    /\ StoredRating(1) = Some(0)

\* The values outside the range were typed and rejected: the row is as it was.
C28_WitnessRejected ==
    /\ last.kind = "text" /\ last.data = "MMR" /\ last.arg \in {"-1", "15001"}
    /\ StoredRating(1) \notin {Some(-1), Some(15001)}
    /\ conv[1] = "MMR"

\* The rating step was reached through start_search: the two screens left
\* last are the position-option screen and the full-party screen.
StartSearchPath(u) ==
    LET stack == BackStack(user_data[u])
    IN  /\ Len(stack) >= 2
        /\ stack[Len(stack)] = "SEARCH_FULL_OPTION"
        /\ stack[Len(stack) - 1] = "SEARCH_POS_OPTION"

\* The role stored for the requester.
OwnRole(u) == IF u \in DOMAIN store THEN store[u].position ELSE None

\* C29: a search reached through start_search with no specific position
\* applies the exclude-own value the position-option screen showed: shown ON
\* (the display before any toggle included), no returned candidate has the
\* requester's role; shown OFF, the candidates are those of the same search
\* without the exclusion.
C29_ShownExclusionIsApplied ==
    [][\A u \in Actors :
          (steps' = steps + 1 /\ last'.user = u /\ searchCall' # None /\ StartSearchPath(u)
              /\ Get(user_data[u], "specific_position") = None) =>
              LET rec == searchCall'[1]
              IN  IF ExcludeOwnShown(user_data[u])
                  THEN \A i \in 1..Len(rec.rows) : store[rec.rows[i]].position # OwnRole(u)
                  ELSE rec.rows = perform_search(u, rec.search_mode, rec.mmr_filter, None, None, rec.only_full_party).rows]_vars

\* C30: at the rating step reached through start_search, the search the next
\* rating choice runs carries no specific position, whatever was selected
\* earlier in the flow.
C30_StartSearchDropsSpecific ==
    \A u \in Actors :
        (conv[u] = "SEARCH_MMR" /\ screen[u].kb = search_mmr_keyboard /\ StartSearchPath(u)) =>
            PendingSearch(u, None).specific_position = None

\* The screens the except clauses of the handlers deliver.
FailureScreens == {toggle_error, mode_save_error, save_error, search_error}

\* The step handled an update of user u during which a call of kind failed.
FaultStep(u, kind) ==
    /\ steps' = steps + 1
    /\ last'.user = u
    /\ fault' = kind

\* C23: whenever a store call (read or write) fails while an update is
\* handled, the table is as it was before the update, a failure screen is on
\* display and the conversation is ended.
C23_StoreFailureEndsOnFailureScreen ==
    [][\A u \in Actors :
          FaultStep(u, "store") =>
              /\ store' = store
              /\ screen'[u] \in FailureScreens
              /\ conv'[u] = "END"]_vars

\* C24: when the delivery of the screen fails in a forward step of the search
\* flow, the step is applied in full all the same: the screen left is pushed
\* and the next state is returned, as when the delivery succeeds.
C24_DeliveryFailureKeepsTransition ==
    [][\A u \in Actors : \A f \in ForwardSteps :
          (FaultStep(u, "render") /\ last'.kind = "callback" /\ last'.data = f.data /\ OnScreenLeft(u, f)) =>
              /\ BackStack(user_data[u])' = Append(BackStack(user_data[u]), f.left)
              /\ conv'[u] = f.next]_vars

-----------------------------------------------------------------------------
(* SpecRace: the user presses a toggle on several devices at once.  The    *)
(* handlers run on one event loop: a handler is suspended only at an       *)
(* await (query.answer() and the delivery), and the code between two       *)
(* awaits, the read of the profile and the upsert included, runs without   *)
(* interruption.  The application is built without concurrent_updates, so  *)
(* the interleavings followed here include every one the program has.      *)

\* The devices of the user with an update in flight.
MaxDevices == 2

RaceDevices == 1..MaxDevices

RaceUser == 1

RaceData == {"toggle_online", "toggle_fullparty"}

\* The row of the user before the updates: none, or any pair of flags.
RaceStores ==
    {[u \in {} |-> None]} \cup
    {[u \in {RaceUser} |-> [ExampleStore[1] EXCEPT !.online = o, !.full_party = f]] : o \in {0, 1}, f \in {0, 1}}

InitRace ==
    /\ store \in RaceStores
    /\ \E data \in [RaceDevices -> RaceData] :
          race = [base |-> get_profile(RaceUser),
                  task |-> [p \in RaceDevices |-> [data |-> data[p], pc |-> "answer", scr |-> NoScreen]]]
    /\ conv = [u \in Actors |-> "END"]
    /\ user_data = [u \in Actors |-> EmptyDict]
    /\ screen = [u \in Actors |-> NoScreen]
    /\ last = NoUpdate
    /\ steps = 0
    /\ searchCall = None
    /\ upsertLog = NoUpsertLog
    /\ fault = "off"
    /\ backRun = NoBackRun

\* A plausible bug: the profile is the one read when the update arrived,
\* before the handler was suspended.
race_read_early(p) == race.base

\* profile = get_profile(user_id) or {}, read in the section that writes.
race_read(p) == get_profile(RaceUser)

\* await query.answer() returns.
RaceAnswer(p) ==
    /\ race.task[p].pc = "answer"
    /\ race' = [race EXCEPT !.task[p].pc = "toggle"]
    /\ UNCHANGED <<store, conv, user_data, screen, last, searchCall, upsertLog, steps, fault, backRun>>

\* The section of the toggle branch between the two awaits: the flag is
\* read, flipped and upserted, the row is read again for the keyboard and
\* the text is stored.
RaceToggle(p) ==
    /\ race.task[p].pc = "toggle"
    /\ LET u == RaceUser
           online_event == race.task[p].data = "toggle_online"
           profile == race_read(p)
           current == IF profile = None THEN FALSE
                      ELSE IF online_event THEN profile[1].online ELSE profile[1].full_party
           new == ~current
           flag == Some(IF new THEN 1 ELSE 0)
           after == IF online_event
                    THEN upsert_profile(u, None, None, None, Username(u), flag, None)
                    ELSE upsert_profile(u, None, None, None, Username(u), None, flag)
           text == IF online_event
                   THEN (IF new THEN <<"online_on">> ELSE <<"online_off">>)
                   ELSE (IF new THEN <<"full_on">> ELSE <<"full_off">>)
           scr == Screen(text, profile_edit_keyboard_dynamic(IF online_event THEN new ELSE after[u].online # 0,
                                                             IF online_event THEN after[u].full_party # 0 ELSE new))
       IN  /\ store' = after
           /\ user_data' = [user_data EXCEPT ![u] = store_last_text(user_data[u], "PROFILE", text)]
           /\ race' = [race EXCEPT !.task[p].pc = "reply", !.task[p].scr = scr]
    /\ UNCHANGED <<conv, screen, last, searchCall, upsertLog, steps, fault, backRun>>

\* await query.edit_message_text(...) returns and the handler returns END.
RaceReply(p) ==
    /\ race.task[p].pc = "reply"
    /\ race' = [race EXCEPT !.task[p].pc = "done"]
    /\ screen' = [screen EXCEPT ![RaceUser] = race.task[p].scr]
    /\ conv' = [conv EXCEPT ![RaceUser] = "END"]
    /\ last' = Update(RaceUser, "callback", race.task[p].data, "")
    /\ steps' = steps + 1
    /\ UNCHANGED <<store, user_data, searchCall, upsertLog, fault, backRun>>

NextRace ==
    \E p \in RaceDevices :
        \/ RaceAnswer(p)
        \/ RaceToggle(p)
        \/ RaceReply(p)

SpecRace == InitRace /\ [][NextRace]_vars

\* The flag of the row before the updates (a missing row counts as off).
BaseFlag(f) == IF race.base = None THEN FALSE ELSE race.base[1][f]

\* The flag after as many flips as there are updates of the kind data.
FlippedBy(f, data) ==
    IF Cardinality({p \in DOMAIN race.task : race.task[p].data = data}) % 2 = 1
    THEN ~BaseFlag(f) ELSE BaseFlag(f)

RaceOver == race.task # <<>> /\ \A p \in DOMAIN race.task : race.task[p].pc = "done"

\* C22: when the toggle handlers of one user, started together on several
\* devices, have all returned, the row exists and each flag has been flipped
\* once per update of its kind: no write is lost, whatever the order in
\* which the handlers were resumed and whether or not the row existed.
C22_RacingTogglesLoseNothing ==
    RaceOver =>
        /\ RaceUser \in DOMAIN store
        /\ (store[RaceUser].online # 0) = FlippedBy("online", "toggle_online")
        /\ (store[RaceUser].full_party # 0) = FlippedBy("full_party", "toggle_fullparty")
        /\ conv[RaceUser] = "END"

\* toggle_online and toggle_fullparty raced for a user with no row: the row
\* was created with both flags on.
C22_Witness ==
    /\ RaceOver
    /\ race.base = None
    /\ \E p, q \in DOMAIN race.task : race.task[p].data = "toggle_online" /\ race.task[q].data = "toggle_fullparty"
    /\ store[RaceUser].online = 1
    /\ store[RaceUser].full_party = 1

\* The same flag toggled on two devices of a user who was online: both flips
\* were applied.
C22_WitnessSameFlag ==
    /\ RaceOver
    /\ race.base # None /\ race.base[1].online
    /\ \A p \in DOMAIN race.task : race.task[p].data = "toggle_online"
    /\ store[RaceUser].online = 1

\* The length of the longest forward path: the main-menu marker and the four
\* search steps.
LongestForwardPath == Len(CHOOSE p \in ForwardPaths : \A q \in ForwardPaths : Len(q) <= Len(p))

\* C31: the navigation stack never holds more entries than the longest
\* forward path, whatever the events were.
C31_StackBounded == \A u \in Actors : Len(BackStack(user_data[u])) <= LongestForwardPath

\* A search was carried to the rating step by a user without a rating, who
\* followed the remedy button: edit_mmr pushed PROFILE on top of the whole
\* search path.
C31_StackBeyondPath ==
    \E u \in Actors :
        /\ last = [user |-> u, kind |-> "callback", data |-> "edit_mmr", arg |-> "", raised |-> FALSE]
        /\ conv[u] = "MMR"
        /\ BackStack(user_data[u]) = <<"MAIN_MENU", "SEARCH_MODE", "SEARCH_POS_OPTION", "SELECT_POSITION", "SEARCH_FULL_OPTION", "PROFILE">>

\* Three profile edits committed one after the other (edit_mode, setmode_):
\* every edit left its PROFILE entry on the stack.
C31_EditsAccumulate ==
    \E u \in Actors :
        /\ last.user = u /\ last.kind = "callback" /\ last.data = "setmode_" /\ ~last.raised
        /\ BackStack(user_data[u]) = <<"PROFILE", "PROFILE", "PROFILE">>

\* The keyboard of the screen perform_search_and_reply delivers for the
\* recorded call.
ResultsKeyboard == SearchScreen(Call).kb

\* C32: every results screen, whatever the number of rows returned (1 up to
\* the cap), offers main_menu and one contact button per returned row.
C32_ResultsOfferMenu ==
    (Searched /\ Call.outcome = "results") =>
        /\ <<"main_menu", "">> \in Buttons(ResultsKeyboard)
        /\ ResultsKeyboard[2] = Len(Call.rows)

\* A search returned as many rows as the cap allows: the thirty contact
\* buttons fill the keyboard and no main_menu button is on it.
C32_FullPageWithoutMenu ==
    /\ Searched /\ Call.outcome = "results"
    /\ Len(Call.rows) = SEARCH_LIMIT
    /\ ResultsKeyboard[2] = SEARCH_LIMIT
    /\ Buttons(ResultsKeyboard) = {}

\* Below the cap the menu button is there.
C32_ShortPagesOfferMenu ==
    (Searched /\ Call.outcome = "results" /\ Len(Call.rows) < SEARCH_LIMIT) =>
        /\ <<"main_menu", "">> \in Buttons(ResultsKeyboard)
        /\ ResultsKeyboard[2] = Len(Call.rows)

\* Twenty-nine rows returned, the largest page that keeps the menu button.
C32_LargestPageWithMenu ==
    /\ Searched /\ Call.outcome = "results"
    /\ Len(Call.rows) = SEARCH_LIMIT - 1
    /\ <<"main_menu", "">> \in Buttons(ResultsKeyboard)

\* The main menu is on display and the navigation stack is empty.
AtMainMenu(u) == screen[u] = Screen(<<"main_menu">>, get_main_keyboard) /\ BackStack(user_data[u]) = <<>>

\* C33: once the user sends Back events and nothing else, the main menu is
\* eventually rendered with the navigation stack empty; every Back of the
\* run strictly shortens a stack that is not empty.
C33_BackRunReachesMainMenu ==
    /\ [][\A u \in Actors : (KeepBack(u) /\ BackStack(user_data[u]) # <<>>) => Len(BackStack(user_data'[u])) < Len(BackStack(user_data[u]))]_vars
    /\ \A u \in Actors : (backRun.sent > 0) ~> AtMainMenu(u)

\* A search was carried through its five screens in six events and five
\* Back events followed: the fifth popped the main-menu marker.
C33_Witness ==
    \E u \in Actors :
        /\ steps = MaxBackEvents
        /\ backRun.sent = 5
        /\ last = Update(u, "callback", "go_back", "")
        /\ Get(user_data[u], "specific_position") # None
        /\ Get(user_data[u], "only_full_party") # None
        /\ AtMainMenu(u)

\* The run began with the cancel keyword typed at the rating prompt of a
\* profile edit: once back on the profile, the next Back gives the main menu.
C33_WitnessCancel ==
    \E u \in Actors :
        /\ backRun.sent = 1
        /\ last = Update(u, "text", "MMR", "Cancel")
        /\ screen[u].kb[1] = "profile"
        /\ BackStack(user_data[u]) = <<>>

=============================================================================
